---- MODULE Spec2Model ----
(***************************************************************************)
(* A model of the forecasting-and-anomaly engine of smart-rental-tracker:  *)
(*   src/ml/anomaly_detector.py   AnomalyDetector                          *)
(*   src/ml/demand_forecaster.py  DemandForecaster                         *)
(*   src/ml/smart_ml_system.py    SmartMLSystem                            *)
(*                                                                         *)
(* Numbers.  The code computes in floating point; the model computes in    *)
(* integers.  Hours and days are whole numbers, ratios are kept in         *)
(* hundredths, and a mean/std pair is kept as the triple (n, sum, sum of   *)
(* squares) from which the band tests are decided exactly.                 *)
(*                                                                         *)
(* Fitted scikit-learn estimators are inputs of the model: what a fitted   *)
(* detector labels, and what a fitted regressor predicts, is drawn from a  *)
(* small set when the estimator is fitted and is fixed afterwards.         *)
(***************************************************************************)
EXTENDS Integers, Sequences, FiniteSets, TLC

VARIABLES
    \* ---- AnomalyDetector (src/ml/anomaly_detector.py) ----
    ad_pc,          \* position in the train_models.py / main() pipeline
    ad_df,          \* the rows read by load_data
    ad_features,    \* df_features: the table returned by engineer_features
    ad_thresholds,  \* self.thresholds
    ad_models,      \* self.models
    ad_pkl,         \* the file written by save_models
    ad_analysis,    \* result of run_complete_analysis of the trained detector
    ad_reanalysis,  \* result of run_complete_analysis after load_models
    ad_detected,    \* result of the last direct call of a detect_* method
    \* ---- DemandForecaster.load_and_transform_data ----
    tr_pc,
    rental_df,      \* df: the rental records read from the CSV file
    ts_df,          \* the daily time series the method returns
    \* ---- DemandForecaster.engineer_features ----
    fe_pc,
    fe_df,          \* df: the time series table passed in
    fe_features,    \* df_features: the table the method returns
    \* ---- DemandForecaster: training and prediction ----
    tn_pc,
    tn_df,          \* df_features: the feature table passed to train_all_models
    fc_models,      \* self.models of the DemandForecaster
    tn_splits,      \* what prepare_training_data returned, per segment
    tn_report,      \* the segments printed as "Insufficient data"
    tn_result,      \* the outcome of the last predict_demand call
    tn_features,    \* the feature rows that call gave to model.predict
    \* ---- SmartMLSystem ----
    ml_pc,
    ml_data,        \* the rows of data.csv
    ml_sys,         \* the SmartMLSystem object in use
    ml_disk,        \* the models directory
    ml_restored,    \* a SmartMLSystem constructed after save_models
    ml_result,      \* the outcome of the last forecast_demand call
    \* ---- one call of a function that reads no object state ----
    fn_pc,
    fn_in,          \* the arguments of the call
    fn_out,          \* what the call returned
    \* ---- POST /ml/models/retrain beside a forecast request ----
    rt_pc,          \* position of the request thread running _train_models
    rt_step,        \* index in TrainOrder of the fit _train_models has reached
    rt_run,         \* number of _train_models runs started after construction
    rt_gen,         \* per artifact, the run that fitted it last
    rt_fitting,     \* the artifact whose fit is in progress, or "none"
    rt_before,      \* the system as it was when the run started
    fc_pc,          \* position of the request thread running forecast_demand
    fc_request,     \* its arguments
    fc_read         \* the scaler and the regressor it has used

ad_vars == <<ad_pc, ad_df, ad_features, ad_thresholds, ad_models, ad_pkl,
             ad_analysis, ad_reanalysis, ad_detected>>

tr_vars == <<tr_pc, rental_df, ts_df>>

fe_vars == <<fe_pc, fe_df, fe_features>>

tn_vars == <<tn_pc, tn_df, fc_models, tn_splits, tn_report, tn_result,
             tn_features>>

ml_vars == <<ml_pc, ml_data, ml_sys, ml_disk, ml_restored, ml_result>>

fn_vars == <<fn_pc, fn_in, fn_out>>

rt_vars == <<rt_pc, rt_step, rt_run, rt_gen, rt_fitting, rt_before,
             fc_pc, fc_request, fc_read>>

vars == <<ad_vars, tr_vars, fe_vars, tn_vars, ml_vars, fn_vars, rt_vars>>

\* what the steps of one component leave alone: the other components
ad_frame == <<tr_vars, fe_vars, tn_vars, ml_vars, fn_vars, rt_vars>>
tr_frame == <<ad_vars, fe_vars, tn_vars, ml_vars, fn_vars, rt_vars>>
fe_frame == <<ad_vars, tr_vars, tn_vars, ml_vars, fn_vars, rt_vars>>
tn_frame == <<ad_vars, tr_vars, fe_vars, ml_vars, fn_vars, rt_vars>>
ml_frame == <<ad_vars, tr_vars, fe_vars, tn_vars, fn_vars, rt_vars>>
fn_frame == <<ad_vars, tr_vars, fe_vars, tn_vars, ml_vars, rt_vars>>
\* the retrain and forecast threads work on the system of ml_vars
rt_frame == <<ad_vars, tr_vars, fe_vars, tn_vars, fn_vars>>

FN_Off == fn_pc = "off" /\ fn_in = << >> /\ fn_out = << >>

----------------------------------------------------------------------------
\* Generic helpers

RECURSIVE SumSeq(_)
SumSeq(s) == IF s = <<>> THEN 0 ELSE Head(s) + SumSeq(Tail(s))

Max2(a, b) == IF a >= b THEN a ELSE b
Min2(a, b) == IF a <= b THEN a ELSE b

RECURSIVE MaxSeq(_)
MaxSeq(s) == IF Len(s) = 1 THEN s[1] ELSE Max2(Head(s), MaxSeq(Tail(s)))

EmptyMap == [x \in {} |-> 0]

----------------------------------------------------------------------------
\* AnomalyDetector

\* Bound: the largest training snapshot.
MaxRows == 6

\* The rental rows a snapshot is drawn from: [Engine Hours/Day, Idle Hours/Day,
\* Operating Days, rental duration in days].
RowKinds ==
    << [engine |-> 0, idle |-> 20, opdays |-> 30,  duration |-> 10],
       [engine |-> 8, idle |-> 2,  opdays |-> 200, duration |-> 30],
       [engine |-> 2, idle |-> 8,  opdays |-> 300, duration |-> 30],
       [engine |-> 0, idle |-> 0,  opdays |-> 0,   duration |-> 0] >>

\* Snapshots up to row order: no step of the detector depends on the order of
\* the rows, so each multiset of rows is taken once, as a sorted sequence.
Snapshots ==
    UNION { { [i \in 1..n |-> RowKinds[k[i]]] :
              k \in { c \in [1..n -> 1..Len(RowKinds)] :
                        \A i \in 1..(n - 1) : c[i] <= c[i + 1] } } :
            n \in 1..MaxRows }

feature_columns ==
    << "Engine Hours/Day", "Idle Hours/Day", "Total_Hours", "Idle_Ratio",
       "Utilization_Efficiency", "Operating_Days_Ratio", "Zero_Engine_Hours",
       "High_Idle_Ratio", "Very_Low_Utilization", "Normalized_Duration" >>

FeatureSet == { feature_columns[i] : i \in 1..Len(feature_columns) }

\* x / (total + 1) in hundredths: a guard as large as the hours themselves
RatioOfCoarseGuard(x, total) == (x * 100) \div (total + 1)

\* x / (total + 1e-8) in hundredths: 0 when total = 0 (the epsilon guard).
RatioOf(x, total) == IF total = 0 THEN 0 ELSE (x * 100) \div total

\* engineer_features, one row.  Operating_Days_Ratio (days / 365) and
\* Normalized_Duration (duration / max_duration) are kept multiplied by their
\* constant divisor: a band test does not change under a positive scaling.
\* The two thresholded flags are decided on the guarded ratio itself:
\*   idle / (total + 1e-8) > 0.8    iff  5 * idle > 4 * total
\*   engine / (total + 1e-8) < 0.2  iff  5 * engine <= total
\* for whole hours.
EngineerRow(row, max_duration) ==
    LET total == row.engine + row.idle
    IN  [f \in FeatureSet |->
           CASE f = "Engine Hours/Day"       -> row.engine
             [] f = "Idle Hours/Day"         -> row.idle
             [] f = "Total_Hours"            -> total
             [] f = "Idle_Ratio"             -> RatioOf(row.idle, total)
             [] f = "Utilization_Efficiency" -> RatioOf(row.engine, total)
             [] f = "Operating_Days_Ratio"   -> row.opdays
             [] f = "Zero_Engine_Hours"      -> IF row.engine = 0 THEN 1 ELSE 0
             [] f = "High_Idle_Ratio"        ->
                    IF 5 * row.idle > 4 * total THEN 1 ELSE 0
             [] f = "Very_Low_Utilization"   ->
                    IF 5 * row.engine <= total THEN 1 ELSE 0
             [] f = "Normalized_Duration"    ->
                    IF max_duration > 0 THEN row.duration ELSE 0]

AD_engineer_features(df) ==
    LET max_duration == MaxSeq([i \in 1..Len(df) |-> df[i].duration])
    IN  [i \in 1..Len(df) |-> EngineerRow(df[i], max_duration)]

\* calculate_statistical_thresholds: per feature the mean and the sample
\* standard deviation (pandas .std(), ddof = 1), kept as (n, sum, sumsq):
\*   mean = sum / n,   std^2 = (n * sumsq - sum^2) / (n * (n - 1)),
\* std being NaN for n = 1.
calculate_statistical_thresholds(df_features) ==
    [f \in FeatureSet |->
        [n     |-> Len(df_features),
         sum   |-> SumSeq([i \in 1..Len(df_features) |-> df_features[i][f]]),
         sumsq |-> SumSeq([i \in 1..Len(df_features) |->
                              df_features[i][f] * df_features[i][f]])]]

\* value > mean + k * std  or  value < mean - k * std, decided exactly:
\*   (value - mean)^2 > k^2 * std^2
\*   iff (n * value - sum)^2 * (n - 1) > k^2 * n * (n * sumsq - sum^2).
\* With one row std is NaN and both comparisons are false.
OutOfBandInclusive(value, t, k) ==
    /\ t.n >= 2
    /\ (t.n * value - t.sum) * (t.n * value - t.sum) * (t.n - 1)
         >= k * k * t.n * (t.n * t.sumsq - t.sum * t.sum)

OutOfBand(value, t, k) ==
    /\ t.n >= 2
    /\ (t.n * value - t.sum) * (t.n * value - t.sum) * (t.n - 1)
         > k * k * t.n * (t.n * t.sumsq - t.sum * t.sum)

\* The band a call uses: the 2-std thresholds when threshold_std == 2, the
\* 3-std thresholds otherwise.
BandWidth(threshold_std) == IF threshold_std = 2 THEN 2 ELSE 3

\* A loop over the features that leaves at the first feature out of band.
AnomalyReasonsFirstOnly(row, thresholds, threshold_std) ==
    LET hits == SelectSeq(feature_columns,
                    LAMBDA f : /\ f \in DOMAIN thresholds
                               /\ f \in DOMAIN row
                               /\ OutOfBand(row[f], thresholds[f],
                                            BandWidth(threshold_std)))
    IN  IF hits = <<>> THEN <<>> ELSE << hits[1] >>

\* The features of a row that detect_statistical_anomalies counts, in the
\* order of feature_columns (one reason string each).
AnomalyReasons(row, thresholds, threshold_std) ==
    SelectSeq(feature_columns,
              LAMBDA f : /\ f \in DOMAIN thresholds
                         /\ f \in DOMAIN row
                         /\ OutOfBand(row[f], thresholds[f],
                                      BandWidth(threshold_std)))

\* '; '.join(anomaly_reasons) if anomaly_reasons else 'None', kept as the
\* sequence of the joined pieces.
JoinReasons(anomaly_reasons) ==
    IF anomaly_reasons = <<>> THEN << "None" >> ELSE anomaly_reasons

\* Column names are kept as the pieces an f-string joins:
\* f'{model_name}_is_anomaly' is <<model_name, "_is_anomaly">>, and the column
\* of the statistical method is the single piece "is_anomaly".
StatFlagCol == << "is_anomaly" >>
MLFlagCol(model_name) == << model_name, "_is_anomaly" >>

\* detect_statistical_anomalies: per row the score, the flag and the reasons.
detect_statistical_anomalies(df_features, thresholds, threshold_std) ==
    [i \in 1..Len(df_features) |->
        LET reasons == AnomalyReasons(df_features[i], thresholds, threshold_std)
        IN  [anomaly_score   |-> Len(reasons),
             anomaly_reasons |-> JoinReasons(reasons),
             flags           |-> (StatFlagCol :> (Len(reasons) > 0))]]

\* model names in the insertion order of self.models
ModelNames == << "isolation_forest", "local_outlier_factor", "dbscan" >>

\* What the three fitted detectors label -1 on the training matrix: every
\* combination of votes on one row, or no row at all.
DetectorLabels(n) ==
    { [m \in {ModelNames[j] : j \in 1..3} |-> {}] } \cup
    { [m \in {ModelNames[j] : j \in 1..3} |-> IF m \in on THEN {r} ELSE {}] :
        r \in 1..n, on \in (SUBSET {ModelNames[j] : j \in 1..3}) \ {{}} }

\* train_all_models: each entry holds the fitted model, the shared scaler and
\* the scaled training matrix X_scaled.
AD_train_all_models(df_features, labels) ==
    [m \in DOMAIN labels |->
        [model |-> labels[m], scaler |-> "fitted", X_scaled |-> df_features]]

\* detect_ml_anomalies: the column f'{model_name}_is_anomaly' of each row.
detect_ml_anomalies(df, model, X_scaled, model_name) ==
    [i \in 1..Len(df) |->
        [df[i] EXCEPT !.flags = @ @@ (MLFlagCol(model_name) :> (i \in model))]]

\* col.endswith(suffix), on the pieces of a column name
EndsWith(col, suffix) ==
    /\ Len(col) >= Len(suffix)
    /\ SubSeq(col, Len(col) - Len(suffix) + 1, Len(col)) = suffix

\* the agreement threshold of run_complete_analysis ("At least 2 methods agree")
ConsensusThreshold == 2

\* df_final['consensus_anomaly'] >= threshold
AgreesExactly(consensus, threshold) == consensus = threshold
IsConsensus(consensus, threshold) == consensus >= threshold

RECURSIVE ApplyModels(_, _, _)
ApplyModels(df, models, names) ==
    IF names = <<>> THEN df
    ELSE ApplyModels(
           detect_ml_anomalies(df, models[Head(names)].model,
                               models[Head(names)].X_scaled, Head(names)),
           models, Tail(names))

\* every column of the frame whose name ends with '_is_anomaly'
AnomalyColumns(flags) ==
    { col \in DOMAIN flags : EndsWith(col, << "_is_anomaly" >>) }

\* run_complete_analysis.  models.items() is walked in insertion order; an
\* entry without 'X_scaled' raises KeyError out of the call.
run_complete_analysis(df_features, thresholds, models) ==
    LET names == SelectSeq(ModelNames, LAMBDA m : m \in DOMAIN models)
        df_statistical == detect_statistical_anomalies(df_features, thresholds, 2)
    IN  IF \E m \in DOMAIN models : "X_scaled" \notin DOMAIN models[m]
        THEN [error |-> "KeyError", rows |-> <<>>]
        ELSE LET df_final == ApplyModels(df_statistical, models, names)
             IN  [error |-> "none",
                  rows  |-> [i \in 1..Len(df_final) |->
                     LET consensus ==
                           Cardinality({ col \in AnomalyColumns(df_final[i].flags) :
                                           df_final[i].flags[col] })
                     IN  [anomaly_score        |-> df_final[i].anomaly_score,
                          anomaly_reasons      |-> df_final[i].anomaly_reasons,
                          flags                |-> df_final[i].flags,
                          consensus_anomaly    |-> consensus,
                          is_consensus_anomaly |->
                              IsConsensus(consensus, ConsensusThreshold)]]]

\* save_models: X_scaled is dropped from every entry before the dump.
AD_save_models(models, thresholds) ==
    [models     |-> [m \in DOMAIN models |->
                        [model |-> models[m].model, scaler |-> models[m].scaler]],
     thresholds |-> thresholds]

NoAnalysis == [error |-> "not run", rows |-> <<>>]
NoFile == [models |-> EmptyMap, thresholds |-> EmptyMap]
NoDetection == [method |-> "none", error |-> "not run", rows |-> <<>>]

AD_Off ==
    /\ ad_pc = "off" /\ ad_df = <<>> /\ ad_features = <<>>
    /\ ad_thresholds = EmptyMap /\ ad_models = EmptyMap /\ ad_pkl = NoFile
    /\ ad_analysis = NoAnalysis /\ ad_reanalysis = NoAnalysis
    /\ ad_detected = NoDetection

\* AnomalyDetector() followed by load_data()
AD_Init ==
    /\ ad_pc = "loaded"
    /\ ad_df \in Snapshots
    /\ ad_features = <<>>
    /\ ad_thresholds = EmptyMap
    /\ ad_models = EmptyMap
    /\ ad_pkl = NoFile
    /\ ad_analysis = NoAnalysis
    /\ ad_reanalysis = NoAnalysis
    /\ ad_detected = NoDetection

AD_EngineerFeatures ==
    /\ ad_pc = "loaded"
    /\ ad_features' = AD_engineer_features(ad_df)
    /\ ad_pc' = "engineered"
    /\ UNCHANGED <<ad_df, ad_thresholds, ad_models, ad_pkl, ad_analysis, ad_reanalysis>>
    /\ UNCHANGED ad_detected
    /\ UNCHANGED ad_frame

AD_CalculateThresholds ==
    /\ ad_pc = "engineered"
    /\ ad_thresholds' = calculate_statistical_thresholds(ad_features)
    /\ ad_pc' = "thresholds"
    /\ UNCHANGED <<ad_df, ad_features, ad_models, ad_pkl, ad_analysis, ad_reanalysis>>
    /\ UNCHANGED ad_detected
    /\ UNCHANGED ad_frame

AD_TrainAllModels ==
    /\ ad_pc = "thresholds"
    /\ \E labels \in DetectorLabels(Len(ad_features)) :
          ad_models' = AD_train_all_models(ad_features, labels)
    /\ ad_pc' = "trained"
    /\ UNCHANGED <<ad_df, ad_features, ad_thresholds, ad_pkl, ad_analysis, ad_reanalysis>>
    /\ UNCHANGED ad_detected
    /\ UNCHANGED ad_frame

AD_RunCompleteAnalysis ==
    /\ ad_pc = "trained"
    /\ ad_analysis' = run_complete_analysis(ad_features, ad_thresholds, ad_models)
    /\ ad_pc' = "analysed"
    /\ UNCHANGED <<ad_df, ad_features, ad_thresholds, ad_models, ad_pkl, ad_reanalysis>>
    /\ UNCHANGED ad_detected
    /\ UNCHANGED ad_frame

AD_SaveModels ==
    /\ ad_pc = "analysed"
    /\ ad_pkl' = AD_save_models(ad_models, ad_thresholds)
    /\ ad_pc' = "saved"
    /\ UNCHANGED <<ad_df, ad_features, ad_thresholds, ad_models, ad_analysis, ad_reanalysis>>
    /\ UNCHANGED ad_detected
    /\ UNCHANGED ad_frame

\* load_models: self.models and self.thresholds are replaced by the file's.
AD_LoadModels ==
    /\ ad_pc = "saved"
    /\ ad_models' = ad_pkl.models
    /\ ad_thresholds' = ad_pkl.thresholds
    /\ ad_pc' = "restored"
    /\ UNCHANGED <<ad_df, ad_features, ad_pkl, ad_analysis, ad_reanalysis>>
    /\ UNCHANGED ad_detected
    /\ UNCHANGED ad_frame

\* run_complete_analysis of the detector that was loaded from the file
AD_RunAfterLoad ==
    /\ ad_pc = "restored"
    /\ ad_reanalysis' = run_complete_analysis(ad_features, ad_thresholds, ad_models)
    /\ ad_pc' = "reanalysed"
    /\ UNCHANGED <<ad_df, ad_features, ad_thresholds, ad_models, ad_pkl, ad_analysis>>
    /\ UNCHANGED ad_detected
    /\ UNCHANGED ad_frame

\* model.fit_predict(X_scaled) of the LocalOutlierFactor branch: the model is
\* fitted again, on the matrix it is given.  On the matrix it was fitted on
\* the fit repeats itself; on another one it yields that matrix's labels.
fit_predict(model, fitted_on, X_scaled, refit) ==
    IF X_scaled = fitted_on THEN model ELSE refit

\* what a detector can label -1 on a matrix of n rows
MatrixLabels(n) == { {} } \cup { {r} : r \in 1..n }

\* the snapshots a detect_* method is called on: the training table, or the
\* table without its last row
SnapshotLengths(n) == { k \in {n - 1, n} : k >= 1 }

\* detect_statistical_anomalies called on the engineered rows of a snapshot
AD_DetectStatisticalAnomalies ==
    /\ ad_pc = "trained"
    /\ ad_pc' = "detected"
    /\ \E k \in SnapshotLengths(Len(ad_features)), threshold_std \in {2, 3} :
          ad_detected' =
              [method |-> "statistical", error |-> "none",
               threshold_std |-> threshold_std,
               rows   |-> detect_statistical_anomalies(
                              SubSeq(ad_features, 1, k), ad_thresholds,
                              threshold_std)]
    /\ UNCHANGED <<ad_df, ad_features, ad_thresholds, ad_models, ad_pkl,
                   ad_analysis, ad_reanalysis>>
    /\ UNCHANGED ad_frame

\* detect_ml_anomalies(df_features, model, X_scaled, model_name) with a model
\* of self.models and the scaled matrix of a snapshot.  isolation_forest
\* predicts; local_outlier_factor calls fit_predict; dbscan assigns
\* model.labels_, whose length is that of the training matrix.
AD_DetectMLAnomalies ==
    /\ ad_pc = "trained"
    /\ ad_pc' = "detected"
    /\ \E name \in DOMAIN ad_models, k \in SnapshotLengths(Len(ad_features)),
          refit \in MatrixLabels(Len(ad_features)) :
          LET X_scaled == SubSeq(ad_features, 1, k)
              entry == ad_models[name]
              model == IF name = "local_outlier_factor"
                       THEN fit_predict(entry.model, entry.X_scaled, X_scaled, refit)
                       ELSE entry.model
          IN  /\ refit \subseteq 1..k
              /\ ad_models' = [ad_models EXCEPT ![name].model = model]
              /\ ad_detected' =
                    IF name = "dbscan" /\ k # Len(entry.X_scaled)
                    THEN [method |-> name, error |-> "ValueError", rows |-> <<>>]
                    ELSE [method |-> name, error |-> "none",
                          rows   |-> detect_ml_anomalies(X_scaled, model,
                                                         X_scaled, name)]
    /\ UNCHANGED <<ad_df, ad_features, ad_thresholds, ad_pkl,
                   ad_analysis, ad_reanalysis>>
    /\ UNCHANGED ad_frame

AD_Next ==
    \/ AD_EngineerFeatures
    \/ AD_CalculateThresholds
    \/ AD_TrainAllModels
    \/ AD_RunCompleteAnalysis
    \/ AD_SaveModels
    \/ AD_LoadModels
    \/ AD_RunAfterLoad


----------------------------------------------------------------------------
\* DemandForecaster: load_and_transform_data

\* Names (site ids, equipment types) are sequences of characters, so that an
\* f-string over them is a concatenation.  NaN is the missing site id.
NaN == << "NaN" >>
SiteA == << "A" >>
SiteB == << "B" >>
TypeX == << "X" >>
TypeY == << "Y" >>

\* pandas ==: a comparison with NaN is False, NaN == NaN included
EqNaN(a, b) == a # NaN /\ b # NaN /\ a = b

\* Series.unique(): the distinct values in order of first appearance (all
\* NaN count as one value)
Unique(s) ==
    LET firsts == { i \in 1..Len(s) : \A j \in 1..(i - 1) : s[j] # s[i] }
    IN  [k \in 1..Cardinality(firsts) |->
           s[CHOOSE i \in firsts : Cardinality({ j \in firsts : j <= i }) = k]]

RECURSIVE Flatten(_)
Flatten(ss) == IF ss = <<>> THEN <<>> ELSE Head(ss) \o Flatten(Tail(ss))

RECURSIVE MinSeq(_)
MinSeq(s) == IF Len(s) = 1 THEN s[1] ELSE Min2(Head(s), MinSeq(Tail(s)))

\* Bounds: the number of rental records and the last calendar day of the input
MaxRecords == 2
MaxDay == 3

RentalRecords ==
    { [site |-> st, type |-> ty, check_out |-> o, check_in |-> i] :
        st \in {SiteA, SiteB, NaN}, ty \in {TypeX, TypeY},
        o \in 1..MaxDay, i \in 1..MaxDay }

RentalTables ==
    UNION { { t \in [1..n -> RentalRecords] :
                \A k \in 1..n : t[k].check_out <= t[k].check_in } :
            n \in 1..MaxRecords }

\* len(df[(out <= date) & (in >= date) & (site == site_id) & (type == equipment_type)])
ActiveRentals(df, date, site_id, equipment_type) ==
    Cardinality({ k \in 1..Len(df) :
                    /\ df[k].check_out <= date
                    /\ df[k].check_in >= date
                    /\ EqNaN(df[k].site, site_id)
                    /\ df[k].type = equipment_type })

\* load_and_transform_data: for each date of the range, each unique site and
\* each unique type, one row; the rows come out in date order.
load_and_transform_data(df) ==
    LET start_date == MinSeq([k \in 1..Len(df) |-> df[k].check_out])
        end_date   == MaxSeq([k \in 1..Len(df) |-> df[k].check_in])
        sites      == Unique([k \in 1..Len(df) |-> df[k].site])
        types      == Unique([k \in 1..Len(df) |-> df[k].type])
        ndays      == IF end_date >= start_date THEN end_date - start_date + 1 ELSE 0
    IN  Flatten([d \in 1..ndays |->
          Flatten([si \in 1..Len(sites) |->
            [ti \in 1..Len(types) |->
               [Date           |-> start_date + d - 1,
                Site_ID        |-> sites[si],
                Type           |-> types[ti],
                Active_Rentals |-> ActiveRentals(df, start_date + d - 1,
                                                 sites[si], types[ti])]]])])

TR_Off == tr_pc = "off" /\ rental_df = <<>> /\ ts_df = <<>>

TR_Init == tr_pc = "start" /\ rental_df \in RentalTables /\ ts_df = <<>>

TR_LoadAndTransform ==
    /\ tr_pc = "start"
    /\ ts_df' = load_and_transform_data(rental_df)
    /\ tr_pc' = "transformed"
    /\ UNCHANGED rental_df
    /\ UNCHANGED tr_frame

TR_Next == TR_LoadAndTransform

----------------------------------------------------------------------------
\* DemandForecaster: engineer_features

\* Bound: the number of dates of the table passed to engineer_features
MaxDates == 9

\* the Active_Rentals values of the input tables
ActiveValues == {0, 1}

\* The positions of the rows of one (site, type) combination, in table order:
\* mask = (df['Site_ID'] == site_id) & (df['Type'] == eq_type)
MaskRows(df, site_id, eq_type) ==
    SelectSeq([i \in 1..Len(df) |-> i],
              LAMBDA i : EqNaN(df[i].Site_ID, site_id) /\ df[i].Type = eq_type)

\* subset.sort_values('Date'): the positions ordered by date (dates of one
\* combination are distinct in the tables considered)
RECURSIVE InsertByDate(_, _, _)
InsertByDate(df, sorted, i) ==
    IF sorted = <<>> THEN << i >>
    ELSE IF df[i].Date < df[Head(sorted)].Date THEN << i >> \o sorted
    ELSE << Head(sorted) >> \o InsertByDate(df, Tail(sorted), i)

RECURSIVE SortByDate(_, _)
SortByDate(df, idxs) ==
    IF idxs = <<>> THEN <<>>
    ELSE InsertByDate(df, SortByDate(df, Tail(idxs)), Head(idxs))

\* Series.shift(k).fillna(0) at position j of a column
Shift(col, k, j) == IF j > k THEN col[j - k] ELSE 0

\* the window of rolling(7, min_periods=1) at position j: the row itself and
\* up to six rows before it
RollingWindow(col, j) == SubSeq(col, Max2(1, j - 6), j)

\* rolling mean, kept multiplied by 420 (the least common multiple of the
\* window sizes 1..7 and of c * (c - 1) for c in 2..7)
MovingAvg(col, j) ==
    LET w == RollingWindow(col, j)
    IN  IF w = <<>> THEN 0 ELSE (420 \div Len(w)) * SumSeq(w)

\* rolling sample std, kept as its square multiplied by 420; NaN (a window of
\* one row) is filled with 0
MovingStd(col, j) ==
    LET w == RollingWindow(col, j)
        c == Len(w)
        sq == SumSeq([x \in 1..c |-> w[x] * w[x]])
    IN  IF c < 2 THEN 0
        ELSE (420 \div (c * (c - 1))) * (c * sq - SumSeq(w) * SumSeq(w))

\* the lag and rolling columns of the sorted subset, at its position j
SubsetFeatures(col, j) ==
    [Lag_1       |-> Shift(col, 1, j),
     Lag_7       |-> Shift(col, 7, j),
     Lag_30      |-> Shift(col, 30, j),
     MovingAvg_7 |-> MovingAvg(col, j),
     MovingStd_7 |-> MovingStd(col, j)]

InitialFeatures ==
    [Lag_1 |-> 0, Lag_7 |-> 0, Lag_30 |-> 0, MovingAvg_7 |-> 0, MovingStd_7 |-> 0]

\* the number of entries of seq up to and including the one equal to i
RECURSIVE PositionIn(_, _)
PositionIn(seq, i) == IF Head(seq) = i THEN 1 ELSE 1 + PositionIn(Tail(seq), i)

\* df_features.loc[mask, col] = subset[col].values: the j-th row of the mask,
\* in table order, receives the j-th value of the date-sorted subset.
WriteBack(mask, sorted, i) == PositionIn(mask, i)

\* engineer_features: every row starts with the initial zeros; then, for each
\* unique site and type, the rows of the mask are overwritten.  A row with a
\* missing site is in no mask and keeps the zeros.
DF_engineer_features(df) ==
    [i \in 1..Len(df) |->
        LET mask   == MaskRows(df, df[i].Site_ID, df[i].Type)
            sorted == SortByDate(df, mask)
            col    == [j \in 1..Len(sorted) |-> df[sorted[j]].Active_Rentals]
        IN  [Date |-> df[i].Date, Site_ID |-> df[i].Site_ID, Type |-> df[i].Type,
             Active_Rentals |-> df[i].Active_Rentals, T |-> i,
             lags |-> IF mask = <<>> THEN InitialFeatures
                      ELSE SubsetFeatures(col, WriteBack(mask, sorted, i))]]

\* Input tables: one combination (SiteA or a missing site, TypeX) with one row
\* per date 1..n, optionally interleaved with the rows of (SiteB, TypeX), in
\* date order or with two neighbouring rows exchanged.
SwapRows(t, p) ==
    [i \in 1..Len(t) |-> IF i = p THEN t[p + 1] ELSE IF i = p + 1 THEN t[p] ELSE t[i]]

SeriesTable(n, a, st, other, p) ==
    LET rows == [d \in 1..n |->
                   << [Date |-> d, Site_ID |-> st, Type |-> TypeX,
                       Active_Rentals |-> a[d]] >>
                   \o (IF other
                       THEN << [Date |-> d, Site_ID |-> SiteB,
                                Type |-> TypeX, Active_Rentals |-> 1] >>
                       ELSE <<>>)]
        t == Flatten(rows)
    IN  IF p = 0 THEN t ELSE SwapRows(t, p)

FE_Off == fe_pc = "off" /\ fe_df = <<>> /\ fe_features = <<>>

FE_Init ==
    /\ fe_pc = "start"
    /\ \E n \in 1..MaxDates :
         \E a \in [1..n -> ActiveValues], st \in {SiteA, NaN},
            other \in BOOLEAN, p \in 0..(n - 1) :
              fe_df = SeriesTable(n, a, st, other, p)
    /\ fe_features = <<>>

FE_EngineerFeatures ==
    /\ fe_pc = "start"
    /\ fe_features' = DF_engineer_features(fe_df)
    /\ fe_pc' = "engineered"
    /\ UNCHANGED fe_df
    /\ UNCHANGED fe_frame

FE_Next == FE_EngineerFeatures

----------------------------------------------------------------------------
\* DemandForecaster: prepare_training_data, train_all_models, predict_demand

\* Bounds: the rows of a segment of the feature table, the forecast horizon
MaxSegmentRows == 52
MaxHorizon == 3

\* prepare_training_data: "if len(site_data) < 50" before dropna and
\* "if len(site_data) < 30" after it
MinRawRows == 50
MinCleanRows == 30

\* A row of the feature table.  The series is Active_Rentals = Date, so Lag_1
\* is the date before; clean = FALSE stands for a NaN in some column of the row.
\* rolling(7, min_periods=1).std() of 1, 2, .., d for d < 7, in hundredths
\* (NaN, filled with 0, for d = 1)
RampStd == << 0, 71, 100, 129, 158, 187 >>

FeatureRow(d, st, ty, clean) ==
    [Date |-> d, Site_ID |-> st, Type |-> ty, Active_Rentals |-> d,
     Lag_1 |-> d - 1, Lag_7 |-> Max2(d - 7, 0), Lag_30 |-> Max2(d - 30, 0),
     MovingAvg_7 |-> IF d >= 7 THEN 2 * (d - 3) ELSE d + 1,
     MovingStd_7 |-> IF d >= 7 THEN 216 ELSE RampStd[d],
     clean |-> clean]

Reverse(t) == [i \in 1..Len(t) |-> t[Len(t) + 1 - i]]

\* The row orders of the input tables: by date, by date descending, or by
\* date with the first two or the last two rows exchanged.
RowOrders == {"by date", "reversed", "first two swapped", "last two swapped"}

Reorder(t, order) ==
    CASE order = "by date" -> t
      [] order = "reversed" -> Reverse(t)
      [] order = "first two swapped" -> IF Len(t) >= 2 THEN SwapRows(t, 1) ELSE t
      [] order = "last two swapped" ->
            IF Len(t) >= 2 THEN SwapRows(t, Len(t) - 1) ELSE t

\* One segment (st, ty) of n dates of which k rows hold a NaN: the k earliest
\* or the k latest.
SegmentTable(n, k, late, st, ty, order) ==
    Reorder([d \in 1..n |->
               FeatureRow(d, st, ty,
                          IF late THEN d <= n - k ELSE d > k)],
            order)

\* the rows of one segment, in table order
SegmentRows(df, site_id, equipment_type) ==
    SelectSeq(df, LAMBDA r : EqNaN(r.Site_ID, site_id) /\ r.Type = equipment_type)

None == [ok |-> FALSE, train |-> <<>>, test |-> <<>>]

\* prepare_training_data: the chronological 80/20 split of the clean rows of
\* the segment, or None.
prepare_no_clean_check(df, site_id, equipment_type) ==
    LET site_data == SegmentRows(df, site_id, equipment_type)
        cleaned   == SelectSeq(site_data, LAMBDA r : r.clean)
        split_idx == (Len(cleaned) * 8) \div 10
    IN  IF Len(site_data) < MinRawRows THEN None
        ELSE [ok    |-> TRUE,
              train |-> SubSeq(cleaned, 1, split_idx),
              test  |-> SubSeq(cleaned, split_idx + 1, Len(cleaned))]

prepare_training_data(df, site_id, equipment_type) ==
    LET site_data == SegmentRows(df, site_id, equipment_type)
        cleaned   == SelectSeq(site_data, LAMBDA r : r.clean)
        split_idx == (Len(cleaned) * 8) \div 10
    IN  IF Len(site_data) < MinRawRows THEN None
        ELSE IF Len(cleaned) < MinCleanRows THEN None
        ELSE [ok    |-> TRUE,
              train |-> SubSeq(cleaned, 1, split_idx),
              test  |-> SubSeq(cleaned, split_idx + 1, Len(cleaned))]

\* model_key = f"{site_id}_{equipment_type}"
model_key(site_id, equipment_type) == site_id \o << "_" >> \o equipment_type

\* df_features[['Site_ID', 'Type']].drop_duplicates(), in table order
Combinations(df) == Unique([i \in 1..Len(df) |-> << df[i].Site_ID, df[i].Type >>])

\* What a fitted regressor predicts, in tenths of a unit: one value for the
\* days Monday to Friday and one for Saturday and Sunday.
RawPredictions == {-15, 5, 25}
FittedModels == [weekday : RawPredictions, weekend : RawPredictions]

\* last_data_dict: the lag and rolling columns of one row
LagFeatures(row) ==
    [Lag_1 |-> row.Lag_1, Lag_7 |-> row.Lag_7, Lag_30 |-> row.Lag_30,
     MovingAvg_7 |-> row.MovingAvg_7, MovingStd_7 |-> row.MovingStd_7]

\* the entry train_all_models stores for a trained segment; last_data is
\* taken from the last row of the segment in table order (iloc[-1])
ModelEntry(df, site_id, equipment_type, model) ==
    LET site_data_for_last == SegmentRows(df, site_id, equipment_type)
    IN  [model     |-> model,
         last_data |-> LagFeatures(site_data_for_last[Len(site_data_for_last)])]

\* train_all_models: the loop over the combinations, from the models and the
\* report so far.  fitted[c] is what fitting the c-th combination yields.
RECURSIVE TrainLoop(_, _, _, _, _)
TrainLoop(df, combos, c, fitted, acc) ==
    IF c > Len(combos) THEN acc
    ELSE LET site_id        == combos[c][1]
             equipment_type == combos[c][2]
             split == prepare_training_data(df, site_id, equipment_type)
         IN  IF ~split.ok
             THEN TrainLoop(df, combos, c + 1, fitted,
                    [acc EXCEPT !.report = @ \cup {combos[c]},
                                !.splits = (combos[c] :> split) @@ @])
             ELSE TrainLoop(df, combos, c + 1, fitted,
                    [acc EXCEPT
                       !.models = (model_key(site_id, equipment_type) :>
                                     ModelEntry(df, site_id, equipment_type,
                                                fitted[c])) @@ @,
                       !.splits = (combos[c] :> split) @@ @])

DF_train_all_models(df, models, fitted) ==
    TrainLoop(df, Combinations(df), 1, fitted,
              [models |-> models, report |-> {}, splits |-> EmptyMap])

\* Python round() of a value given in tenths: to the nearest integer, a tie
\* to the even one
RoundHalfEven(x, unit) ==
    LET q == x \div unit
        r == x % unit
    IN  IF 2 * r < unit THEN q
        ELSE IF 2 * r > unit THEN q + 1
        ELSE IF q % 2 = 0 THEN q ELSE q + 1

RoundTenths(x) == RoundHalfEven(x, 10)

\* Dates are day numbers; day 0 is Monday 1 January of a year of 365 days.
\* weekday(): 0 = Monday .. 6 = Sunday; DayOfWeek = weekday() + 1
weekday(day) == day % 7
DayOfWeek(day) == weekday(day) + 1

Predict(model, day) ==
    IF DayOfWeek(day) >= 6 THEN model.weekend ELSE model.weekday

\* predict_demand: ValueError when the key is not in self.models; otherwise
\* one value max(0, round(prediction)) per day after datetime.now()
PredictNoClamp(prediction) == RoundTenths(prediction)
ClampPrediction(prediction) == Max2(0, RoundTenths(prediction))

predict_demand(models, site_id, equipment_type, days_ahead, now) ==
    LET key == model_key(site_id, equipment_type)
    IN  IF key \notin DOMAIN models
        THEN [request |-> << site_id, equipment_type, days_ahead >>,
              error |-> "ValueError", predictions |-> <<>>]
        ELSE [request     |-> << site_id, equipment_type, days_ahead >>,
              error       |-> "none",
              predictions |-> [i \in 1..days_ahead |->
                                 ClampPrediction(Predict(models[key].model, now + i))]]

\* the features predict_demand builds for the i-th future date (i from 0 in
\* the code, 'T': 1000 + i): the calendar of the date and the stored last_data
FutureFeatures(last_data, future_date, i) ==
    [DayOfWeek |-> DayOfWeek(future_date), T |-> 1000 + i - 1,
     lags |-> last_data]

\* the rows given to model.predict, one per future date
predict_features(models, site_id, equipment_type, days_ahead, now) ==
    LET key == model_key(site_id, equipment_type)
    IN  IF key \notin DOMAIN models THEN <<>>
        ELSE [i \in 1..days_ahead |->
                FutureFeatures(models[key].last_data, now + i, i)]

NoResult ==
    [request |-> << >>, error |-> "not called", predictions |-> <<>>]

TN_Off ==
    /\ tn_pc = "off" /\ tn_df = <<>> /\ fc_models = EmptyMap
    /\ tn_splits = EmptyMap /\ tn_report = {} /\ tn_result = NoResult
    /\ tn_features = <<>>

TN_Fresh ==
    /\ tn_pc = "start" /\ fc_models = EmptyMap
    /\ tn_splits = EmptyMap /\ tn_report = {} /\ tn_result = NoResult
    /\ tn_features = <<>>

\* the feature tables of the training claims: every size, every number of
\* rows with a NaN, every row order
TN_Init ==
    /\ TN_Fresh
    /\ \E n \in 1..MaxSegmentRows :
         \E k \in 0..n, late \in BOOLEAN, order \in RowOrders :
            tn_df = SegmentTable(n, k, late, SiteA, TypeX, order)

\* the feature tables of the prediction claims: one segment just below and
\* just at the number of rows prepare_training_data asks for, in every row
\* order
TN_PredictInit ==
    /\ TN_Fresh
    /\ \E n \in {MinRawRows - 1, MinRawRows} :
         \E order \in RowOrders :
            tn_df = SegmentTable(n, 0, FALSE, SiteA, TypeX, order)

\* Site and type names that hold the separator of the model key.
SiteAB == << "A", "_", "B" >>
TypeC  == << "C" >>
TypeBC == << "B", "_", "C" >>
SegmentNames ==
    { << SiteA, TypeX >>, << SiteB, TypeX >>,
      << SiteAB, TypeC >>, << SiteA, TypeBC >> }

\* the feature tables of the claims on several segments: two segments one
\* after the other, each by date, each just below, at or just above the
\* number of rows prepare_training_data asks for
TN_SegmentsInit ==
    /\ TN_Fresh
    /\ \E s1 \in SegmentNames, s2 \in SegmentNames :
         \E n1, n2 \in {MinRawRows - 1, MinRawRows, MinRawRows + 1} :
            /\ s1 # s2
            /\ tn_df = SegmentTable(n1, 0, FALSE, s1[1], s1[2], "by date")
                       \o SegmentTable(n2, 0, FALSE, s2[1], s2[2], "by date")

TN_TrainAllModels ==
    /\ tn_pc = "start"
    /\ \E fitted \in [1..Len(Combinations(tn_df)) -> FittedModels] :
          LET out == DF_train_all_models(tn_df, fc_models, fitted)
          IN  /\ fc_models' = out.models
              /\ tn_report' = out.report
              /\ tn_splits' = out.splits
    /\ tn_pc' = "trained"
    /\ UNCHANGED <<tn_df, tn_result, tn_features>>
    /\ UNCHANGED tn_frame

TN_PredictDemand ==
    /\ tn_pc \in {"trained", "predicted"}
    /\ \E site_id \in {SiteA, SiteB}, equipment_type \in {TypeX},
          days_ahead \in 0..MaxHorizon, now \in 0..6 :
          /\ tn_result' = predict_demand(fc_models, site_id, equipment_type,
                                         days_ahead, now)
          /\ tn_features' = predict_features(fc_models, site_id, equipment_type,
                                             days_ahead, now)
    /\ tn_pc' = "predicted"
    /\ UNCHANGED <<tn_df, fc_models, tn_splits, tn_report>>
    /\ UNCHANGED tn_frame

\* predict_demand for one of the named segments, one day ahead
TN_PredictSegment ==
    /\ tn_pc = "trained"
    /\ \E seg \in SegmentNames, now \in {0, 4} :
          /\ tn_result' = predict_demand(fc_models, seg[1], seg[2], 1, now)
          /\ tn_features' = predict_features(fc_models, seg[1], seg[2], 1, now)
    /\ tn_pc' = "predicted"
    /\ UNCHANGED <<tn_df, fc_models, tn_splits, tn_report>>
    /\ UNCHANGED tn_frame

----------------------------------------------------------------------------
\* SmartMLSystem: construction, _train_models, forecast_demand, save_models

\* Bound: the rows of site A in data.csv
MaxSiteRows == 12

\* 'UNASSIGNED' replaces a missing User ID; NoneArg is an argument not given
UNASSIGNED == << "UNASSIGNED" >>
NoneArg == << >>

\* _train_models: len(self.data) < 50, len(clean_data) < 30;
\* _train_site_specific_models: len(site_data) < 10
ML_MinRows == 50
ML_MinCleanRows == 30
ML_MinSiteRows == 10

\* The tables: site A holds 0..MaxSiteRows rows of type X, the rows without a
\* site are 0, 8, 40 or 90 of type X, of which 0 or 25 have a NaN in a feature
\* column; last is the latest Check-Out Date.
BulkRows == {0, 8, 40, 90}
DirtyRows == {0, 25}
LastDates == {3, 150}

MLTable(site_rows, bulk_rows, dirty, last) ==
    [rows  |-> (<< SiteA, TypeX >> :> site_rows) @@
               (<< UNASSIGNED, TypeX >> :> bulk_rows),
     dirty |-> dirty,
     last  |-> last]

RECURSIVE SumOver(_, _)
SumOver(f, S) ==
    IF S = {} THEN 0
    ELSE LET x == CHOOSE y \in S : TRUE
         IN  f[x] + SumOver(f, S \ {x})

\* len(self.data)
DataLen(data) == SumOver(data.rows, DOMAIN data.rows)

SitesOf(data) == { seg[1] : seg \in { g \in DOMAIN data.rows : data.rows[g] > 0 } }
TypesOf(data) == { seg[2] : seg \in { g \in DOMAIN data.rows : data.rows[g] > 0 } }

\* len(self.data[self.data['User ID'] == site])
SiteRows(data, site) ==
    SumOver(data.rows, { seg \in DOMAIN data.rows : seg[1] = site })

\* len(filtered_data) of forecast_demand: the type filter applies when a type
\* is given, the site filter when a site other than 'UNASSIGNED' is given
FilteredRows(data, equipment_type, site_id) ==
    SumOver(data.rows,
            { seg \in DOMAIN data.rows :
                /\ equipment_type # NoneArg => seg[2] = equipment_type
                /\ (site_id # NoneArg /\ site_id # UNASSIGNED) => seg[1] = site_id })

\* What fitting a regressor of the SmartMLSystem yields: a prediction that is
\* the same on every day of the week
ML_FittedModels == { model \in FittedModels : model.weekday = model.weekend }

\* An estimator: unfitted (or None), where predict raises, or fitted with
\* what it predicts
\* the columns of X in _train_models, in the order of the list
global_feature_columns ==
    << "equipment_type_encoded", "site_encoded", "month", "day_of_week",
       "quarter", "is_weekend", "seasonal_factor", "site_equipment_count",
       "site_avg_utilization", "equipment_site_popularity", "demand_7d_avg",
       "demand_30d_avg", "rental_duration", "utilization_ratio" >>

\* the columns of site_features in _train_site_specific_models
site_feature_columns ==
    << "equipment_type_encoded", "month", "day_of_week", "quarter",
       "is_weekend", "seasonal_factor", "demand_7d_avg", "demand_30d_avg" >>

\* what each position of the list _prepare_forecast_features returns holds,
\* named by the training column it is computed as
_prepare_forecast_features ==
    << "equipment_type_encoded", "site_encoded", "month", "day_of_week",
       "quarter", "is_weekend", "seasonal_factor", "site_equipment_count",
       "site_avg_utilization", "equipment_site_popularity", "demand_7d_avg",
       "demand_30d_avg", "rental_duration", "utilization_ratio" >>

Unfitted ==
    [fitted |-> FALSE, predicts |-> [weekday |-> 0, weekend |-> 0],
     columns |-> << >>]
Fitted(model, columns) ==
    [fitted |-> TRUE, predicts |-> model, columns |-> columns]

\* the object after __init__ has run _load_data and _preprocess_data
NewSystem(data) ==
    [models_trained       |-> FALSE,
     anomaly_detector     |-> [fitted |-> FALSE],
     demand_forecaster    |-> Unfitted,
     scaler               |-> [fitted |-> FALSE],
     site_specific_models |-> EmptyMap,
     equipment_encoder    |-> TypesOf(data),
     site_encoder         |-> SitesOf(data)]

\* the sites _train_site_specific_models fits a model for (their rows have no
\* NaN, so the check of 5 clean rows follows from the check of 10 rows)
TrainableSites(data) ==
    { site \in SitesOf(data) :
        site # UNASSIGNED /\ SiteRows(data, site) >= ML_MinSiteRows }

_train_site_specific_models(models, data, fitted_site) ==
    [site \in DOMAIN models \cup TrainableSites(data) |->
        IF site \in TrainableSites(data) THEN Fitted(fitted_site[site], site_feature_columns)
        ELSE models[site]]

_train_models(sys, data, fitted_global, fitted_site) ==
    IF DataLen(data) < ML_MinRows THEN sys
    ELSE IF DataLen(data) - data.dirty < ML_MinCleanRows THEN sys
    ELSE [sys EXCEPT
            !.scaler = [fitted |-> TRUE],
            !.demand_forecaster = Fitted(fitted_global, global_feature_columns),
            !.site_specific_models =
                _train_site_specific_models(@, data, fitted_site),
            !.anomaly_detector = [fitted |-> TRUE],
            !.models_trained = TRUE]

\* the models directory
NoDirectory == [exists |-> FALSE, files |-> EmptyMap, site_model_files |-> EmptyMap]

\* save_models: five files and one file site_model_{site}.pkl per site model
ML_save_models(sys, disk) ==
    [exists |-> TRUE,
     files  |-> ("anomaly_detector" :> sys.anomaly_detector) @@
                ("demand_forecaster" :> sys.demand_forecaster) @@
                ("scaler" :> sys.scaler) @@
                ("equipment_encoder" :> sys.equipment_encoder) @@
                ("site_encoder" :> sys.site_encoder) @@ disk.files,
     site_model_files |-> sys.site_specific_models @@ disk.site_model_files]

\* _try_load_models: the five joblib.load calls in order; a missing file ends
\* them with what was assigned so far
LoadOrder ==
    << "anomaly_detector", "demand_forecaster", "scaler",
       "equipment_encoder", "site_encoder" >>

RECURSIVE LoadFiles(_, _, _)
LoadFiles(sys, files, k) ==
    IF k > Len(LoadOrder) THEN [ok |-> TRUE, sys |-> sys]
    ELSE IF LoadOrder[k] \notin DOMAIN files THEN [ok |-> FALSE, sys |-> sys]
    ELSE LoadFiles([sys EXCEPT ![LoadOrder[k]] = files[LoadOrder[k]]], files, k + 1)

\* then "for site in self.site_specific_models.keys()": the sites the object
\* holds at that moment
_try_load_models(sys, disk) ==
    LET loaded == LoadFiles(sys, disk.files, 1)
        held   == loaded.sys.site_specific_models
    IN  IF ~loaded.ok THEN loaded
        ELSE [ok  |-> TRUE,
              sys |-> [loaded.sys EXCEPT
                         !.site_specific_models =
                            [site \in DOMAIN held |->
                               IF site \in DOMAIN disk.site_model_files
                               THEN disk.site_model_files[site]
                               ELSE Unfitted],
                         !.models_trained = TRUE]]

\* __init__: load the saved models if the directory exists and the load
\* succeeds, train otherwise
construct(data, disk, fitted_global, fitted_site) ==
    LET fresh  == NewSystem(data)
        loaded == _try_load_models(fresh, disk)
    IN  IF disk.exists /\ loaded.ok THEN loaded.sys
        ELSE _train_models(IF disk.exists THEN loaded.sys ELSE fresh,
                           data, fitted_global, fitted_site)

\* the month of a day number
MonthStarts == << 0, 31, 59, 90, 120, 151, 181, 212, 243, 273, 304, 334 >>
Month(day) == Cardinality({ mo \in 1..12 : MonthStarts[mo] <= day % 365 })

\* _apply_realistic_constraints, in thousandths of a unit, of a prediction
\* given in tenths: the weekend and winter factors first, the clamp after
max_demand(n, equipment_type, site_id) ==
    LET by_site == IF site_id # NoneArg /\ site_id # UNASSIGNED /\ n > 0
                   THEN Min2(20000, 2000 * n) ELSE 20000
    IN  IF equipment_type # NoneArg /\ n > 0
        THEN Min2(by_site, 1500 * n) ELSE by_site

\* the weekend and winter factors, in tenths
WeekendFactor(future_date) == IF weekday(future_date) >= 5 THEN 6 ELSE 10
WinterFactor(future_date) == IF Month(future_date) \in {12, 1, 2} THEN 8 ELSE 10

_apply_realistic_constraints(predicted_demand, future_date, n, equipment_type, site_id) ==
    Max2(0, Min2(max_demand(n, equipment_type, site_id),
                 predicted_demand * WeekendFactor(future_date)
                                  * WinterFactor(future_date)))

\* _calculate_forecast_confidence, in millionths
UnclampedConfidence(confidence) == confidence
ClampConfidence(confidence) == Min2(950000, Max2(300000, confidence))

\* time_factor = max(0.5, 1.0 - days_from_last * 0.01), in hundredths
TimeFactorRising(days_from_last) == Min2(100, 50 + days_from_last)
TimeFactor(days_from_last) == Max2(50, 100 - days_from_last)

_calculate_forecast_confidence(n, equipment_type, site_id, days_from_last) ==
    LET data_factor == IF n >= 100 THEN 10 ELSE IF n >= 50 THEN 9
                       ELSE IF n >= 20 THEN 8 ELSE 6
        site_factor == IF site_id # NoneArg /\ site_id # UNASSIGNED
                       THEN (IF n >= 10 THEN 10 ELSE IF n >= 5 THEN 9 ELSE 7)
                       ELSE 10
        equipment_factor == IF equipment_type # NoneArg
                            THEN (IF n >= 20 THEN 10 ELSE IF n >= 10 THEN 9 ELSE 8)
                            ELSE 10
        time_factor == TimeFactor(days_from_last)
    IN  ClampConfidence(7 * data_factor * site_factor * equipment_factor * time_factor)

UsesSiteModel(sys, equipment_type, site_id) ==
    /\ site_id # NoneArg
    /\ site_id \in DOMAIN sys.site_specific_models
    /\ equipment_type # NoneArg

\* what raises inside the loop of forecast_demand: a label the encoder has not
\* seen, or an estimator that is not fitted
ForecastRaises(sys, equipment_type, site_id) ==
    \/ equipment_type # NoneArg /\ equipment_type \notin sys.equipment_encoder
    \/ site_id # NoneArg /\ site_id \notin sys.site_encoder
    \/ IF UsesSiteModel(sys, equipment_type, site_id)
       THEN ~sys.site_specific_models[site_id].fitted
       ELSE ~sys.scaler.fitted \/ ~sys.demand_forecaster.fitted

ForecastError(equipment_type, site_id, days_ahead, error) ==
    [request |-> << equipment_type, site_id, days_ahead >>,
     error |-> error, forecasts |-> << >>]

\* the estimator forecast_demand calls predict on, and the feature vector it
\* hands to it (features[:8] for a site model)
ModelUsed(sys, equipment_type, site_id) ==
    IF UsesSiteModel(sys, equipment_type, site_id)
    THEN sys.site_specific_models[site_id]
    ELSE sys.demand_forecaster

FeaturesGiven(sys, equipment_type, site_id) ==
    IF UsesSiteModel(sys, equipment_type, site_id)
    THEN SubSeq(_prepare_forecast_features, 1, 8)
    ELSE _prepare_forecast_features

\* The latest Check-Out Date of a segment: the rows of site A end two days
\* before the rows without a site.
SegmentLast(data, seg) == IF seg[1] = SiteA THEN data.last - 2 ELSE data.last

\* last_date = filtered_data['Check-Out Date'].max(); the date of the table
\* stands in when no row matches
last_date(data, equipment_type, site_id) ==
    LET lasts == { SegmentLast(data, seg) :
                     seg \in { g \in DOMAIN data.rows :
                                 /\ data.rows[g] > 0
                                 /\ equipment_type # NoneArg => g[2] = equipment_type
                                 /\ (site_id # NoneArg /\ site_id # UNASSIGNED)
                                       => g[1] = site_id } }
    IN  IF lasts = {} THEN data.last
        ELSE CHOOSE d \in lasts : \A e \in lasts : e <= d

\* future_dates[i]: last_date + timedelta(days=i+1) for i in range(days_ahead),
\* with i counted from 1 here
FutureDateFromLast(last, i) == last + i - 1
FutureDate(last, i) == last + i

\* predicted_demand of day i as the given estimator yields it, in tenths
PredictedBy(model, data, n, equipment_type, site_id, i) ==
    LET future_date == FutureDate(last_date(data, equipment_type, site_id), i)
    IN  RoundHalfEven(
            Max2(0, _apply_realistic_constraints(
                        Predict(model.predicts, future_date), future_date,
                        n, equipment_type, site_id)),
            100)

\* one entry of the forecast: predicted_demand in tenths, confidence in hundredths
ForecastEntry(sys, data, n, equipment_type, site_id, i) ==
    LET future_date == FutureDate(last_date(data, equipment_type, site_id), i)
        confidence ==
            _calculate_forecast_confidence(n, equipment_type, site_id, i)
    IN  [date             |-> future_date,
         predicted_demand |->
             PredictedBy(ModelUsed(sys, equipment_type, site_id), data, n,
                         equipment_type, site_id, i),
         confidence       |-> RoundHalfEven(confidence, 10000)]

\* the result of a forecast that went through: total_predicted_demand is
\* round(sum of the entries' predicted_demand, 1), in tenths
ForecastReport(equipment_type, site_id, days_ahead, forecasts) ==
    [request   |-> << equipment_type, site_id, days_ahead >>,
     error     |-> "none",
     forecasts |-> forecasts,
     total_predicted_demand |->
         SumSeq([i \in 1..Len(forecasts) |-> forecasts[i].predicted_demand])]

\* forecast_demand that goes on when no row matches the request
forecast_without_data_check(sys, data, equipment_type, site_id, days_ahead) ==
    LET n == FilteredRows(data, equipment_type, site_id)
    IN  IF ~sys.models_trained
        THEN ForecastError(equipment_type, site_id, days_ahead, "Models not trained")
        ELSE IF days_ahead <= 0
        THEN ForecastError(equipment_type, site_id, days_ahead,
                           "Error forecasting demand")
        ELSE ForecastReport(equipment_type, site_id, days_ahead,
                 [i \in 1..days_ahead |->
                    ForecastEntry(sys, data, n, equipment_type, site_id, i)])

\* forecast_demand; with days_ahead = 0 the average divides by zero and with
\* days_ahead < 0 max() is given an empty list, which the except clause turns
\* into an error result
forecast_demand(sys, data, equipment_type, site_id, days_ahead) ==
    LET n == FilteredRows(data, equipment_type, site_id)
    IN  IF ~sys.models_trained
        THEN ForecastError(equipment_type, site_id, days_ahead, "Models not trained")
        ELSE IF n = 0
        THEN ForecastError(equipment_type, site_id, days_ahead,
                           "No data found for the specified parameters")
        ELSE IF days_ahead <= 0 \/ ForecastRaises(sys, equipment_type, site_id)
        THEN ForecastError(equipment_type, site_id, days_ahead,
                           "Error forecasting demand")
        ELSE ForecastReport(equipment_type, site_id, days_ahead,
                 [i \in 1..days_ahead |->
                    ForecastEntry(sys, data, n, equipment_type, site_id, i)])

RequestTypes == {NoneArg, TypeX, TypeY}
RequestSites == {NoneArg, SiteA, SiteB, UNASSIGNED}

NoSystem == NewSystem(MLTable(0, 0, 0, 0))
NoForecast == ForecastError(NoneArg, NoneArg, 0, "not called")

ML_Off ==
    /\ ml_pc = "off" /\ ml_data = MLTable(0, 0, 0, 0) /\ ml_sys = NoSystem
    /\ ml_disk = NoDirectory /\ ml_restored = NoSystem /\ ml_result = NoForecast

ML_Init ==
    /\ ml_pc = "start"
    /\ \E site_rows \in 0..MaxSiteRows, bulk_rows \in BulkRows,
          dirty \in DirtyRows, last \in LastDates :
          /\ dirty <= bulk_rows
          /\ ml_data = MLTable(site_rows, bulk_rows, dirty, last)
    /\ ml_sys = NoSystem
    /\ ml_disk = NoDirectory
    /\ ml_restored = NoSystem
    /\ ml_result = NoForecast

\* ml_system = SmartMLSystem(): there is no models directory, so it trains
ML_Construct ==
    /\ ml_pc = "start"
    /\ \E fitted_global \in ML_FittedModels,
          fitted_site \in [TrainableSites(ml_data) -> ML_FittedModels] :
          ml_sys' = construct(ml_data, ml_disk, fitted_global, fitted_site)
    /\ ml_pc' = "ready"
    /\ UNCHANGED <<ml_data, ml_disk, ml_restored, ml_result>>
    /\ UNCHANGED ml_frame

\* the forecasts asked of a system between its construction and save_models
ML_ForecastDemand ==
    /\ ml_pc = "ready"
    /\ \E equipment_type \in RequestTypes, site_id \in RequestSites,
          days_ahead \in -1..MaxHorizon :
          ml_result' = forecast_demand(ml_sys, ml_data, equipment_type, site_id,
                                       days_ahead)
    /\ UNCHANGED <<ml_pc, ml_data, ml_sys, ml_disk, ml_restored>>
    /\ UNCHANGED ml_frame

ML_SaveModels ==
    /\ ml_pc = "ready"
    /\ ml_disk' = ML_save_models(ml_sys, ml_disk)
    /\ ml_pc' = "saved"
    /\ UNCHANGED <<ml_data, ml_sys, ml_restored, ml_result>>
    /\ UNCHANGED ml_frame

\* a file of the models directory is deleted (or was never written)
ML_RemoveArtifact ==
    /\ ml_pc = "saved"
    /\ \E name \in DOMAIN ml_disk.files :
          ml_disk' = [ml_disk EXCEPT
                        !.files = [f \in DOMAIN ml_disk.files \ {name} |->
                                     ml_disk.files[f]]]
    /\ UNCHANGED <<ml_pc, ml_data, ml_sys, ml_restored, ml_result>>
    /\ UNCHANGED ml_frame

\* _try_load_models on the object __init__ has prepared; ml_restored is the
\* object when the method returns
ML_TryLoadModels ==
    /\ ml_pc = "saved"
    /\ LET loaded == _try_load_models(NewSystem(ml_data), ml_disk)
       IN  /\ ml_restored' = loaded.sys
           /\ ml_pc' = IF loaded.ok THEN "loaded" ELSE "load failed"
    /\ UNCHANGED <<ml_data, ml_sys, ml_disk, ml_result>>
    /\ UNCHANGED ml_frame

\* a second SmartMLSystem() over the same data.csv, after save_models
ML_ConstructAfterSave ==
    /\ ml_pc = "saved"
    /\ \E fitted_global \in ML_FittedModels,
          fitted_site \in [TrainableSites(ml_data) -> ML_FittedModels] :
          ml_restored' = construct(ml_data, ml_disk, fitted_global, fitted_site)
    /\ ml_pc' = "restored"
    /\ UNCHANGED <<ml_data, ml_sys, ml_disk, ml_result>>
    /\ UNCHANGED ml_frame

----------------------------------------------------------------------------
\* SmartMLSystem._calculate_demand_trend

Abs(x) == IF x < 0 THEN -x ELSE x

\* np.polyfit(x, y, 1) over x = 0 .. n-1: the slope is SlopeNum / SlopeDen in
\* the unit of y per day.  The least-squares sums do not change when the
\* smallest value is subtracted from every y, which keeps the products small.
Centered(demands) ==
    [i \in 1..Len(demands) |-> demands[i] - MinSeq(demands)]
SlopeNum(demands) ==
    LET n == Len(demands)
        y == Centered(demands)
    IN  n * SumSeq([i \in 1..n |-> (i - 1) * y[i]])
          - SumSeq([i \in 1..n |-> i - 1]) * SumSeq(y)
SlopeDen(demands) ==
    LET n == Len(demands)
    IN  n * SumSeq([i \in 1..n |-> (i - 1) * (i - 1)])
          - SumSeq([i \in 1..n |-> i - 1]) * SumSeq([i \in 1..n |-> i - 1])
\* n * ss_tot
TotalVariation(demands) ==
    LET n == Len(demands)
        y == Centered(demands)
    IN  n * SumSeq([i \in 1..n |-> y[i] * y[i]]) - SumSeq(y) * SumSeq(y)

\* abs(slope) < 0.1, for demands in tenths of a unit
DeadZoneInclusive(num, den) == Abs(num) <= den
DeadZone(num, den) == Abs(num) < den

\* _calculate_demand_trend over the predicted_demand values (in tenths); the
\* strength R^2 = SlopeNum^2 / (SlopeDen * TotalVariation), in thousandths
_calculate_demand_trend(demands) ==
    IF Len(demands) < 2 THEN [trend |-> "stable", strength |-> 0]
    ELSE IF \A i \in 1..Len(demands) : demands[i] = demands[1]
    THEN [trend |-> "stable", strength |-> 0]
    ELSE LET num == SlopeNum(demands)
             den == SlopeDen(demands)
         IN  [trend    |-> IF DeadZone(num, den) THEN "stable"
                           ELSE IF num > 0 THEN "increasing" ELSE "decreasing",
              strength |-> RoundHalfEven(1000 * num * num,
                                         den * TotalVariation(demands))]

----------------------------------------------------------------------------
\* Single calls of the functions that read no object state

\* Bounds: hours per day of a rental row, length of a forecast series
MaxHours == 12
MaxSeries == 4

\* predicted_demand values of a forecast series, in tenths
DemandValues == {49, 50, 51, 52}
\* raw predictions (tenths) and future dates given to the constraints
ConstraintInputs == {-15, 5, 25, 250}
ConstraintDates == {4, 5, 151, 152}

\* train_test_split(X, y, test_size=0.2, random_state=42) of _train_models:
\* shuffle is left at its default, True, so the n positions are permuted,
\* the first ceil(0.2 n) of the permutation are the test rows and the rest
\* the training rows.  The permutation of seed 42 is not computed here: it is
\* drawn from the rotations of the positions.
Rotation(n, r) == [i \in 1..n |-> ((i - 1 + r) % n) + 1]

train_test_split(dates, permutation) ==
    LET n == Len(dates)
        n_test == (n + 4) \div 5
    IN  [train |-> [i \in 1..(n - n_test) |-> dates[permutation[n_test + i]]],
         test  |-> [i \in 1..n_test |-> dates[permutation[i]]]]

\* clean_data keeps the row order of data.csv: check-out dates going up, or
\* going down, along the table
CleanTable(n, order) ==
    [i \in 1..n |-> IF order = "ascending" THEN i ELSE n + 1 - i]

\* Bound: the rows of self.data in a call of detect_anomalies(equipment_id)
MaxDataRows == 3

EquipmentE1 == << "E1" >>
EquipmentE2 == << "E2" >>
EquipmentE3 == << "E3" >>

\* A row of self.data as detect_anomalies reads it: the equipment, the engine
\* hours, and whether the four anomaly features are all present (no NaN).
DataRowKinds ==
    { [equipment_id |-> e, engine_hours |-> h, valid |-> v] :
        e \in {EquipmentE1, EquipmentE2}, h \in {2, 8}, v \in BOOLEAN } \
    { [equipment_id |-> e, engine_hours |-> 8, valid |-> FALSE] :
        e \in {EquipmentE1, EquipmentE2} }

DataTables == UNION { [1..n -> DataRowKinds] : n \in 1..MaxDataRows }

\* The index labels (0, 1, ..) of the rows of self.data that the selection by
\* equipment keeps, in table order: read_csv gives self.data a RangeIndex and
\* a boolean selection or dropna keeps the labels of the rows it keeps.
EquipmentLabels(data, equipment_id) ==
    SelectSeq([i \in 1..Len(data) |-> i - 1],
              LAMBDA l : \/ equipment_id = NoneArg
                         \/ data[l + 1].equipment_id = equipment_id)

\* the positions (from 1) of a set, in increasing order
RECURSIVE Ascending(_)
Ascending(set) ==
    IF set = {} THEN <<>>
    ELSE LET least == CHOOSE x \in set : \A y \in set : x <= y
         IN  << least >> \o Ascending(set \ {least})

\* One entry of "anomalies", read from the row "record" of self.data.
AnomalyEntry(record) ==
    [equipment_id |-> record.equipment_id, engine_hours |-> record.engine_hours]

\* equipment_data.iloc[feature_data.index[idx]]: the index label of the
\* scored row is used as a position in equipment_data; IndexError when the
\* label is not below len(equipment_data).
RecordByPosition(data, equipment_labels, label) ==
    IF label >= Len(equipment_labels)
    THEN [found |-> FALSE, row |-> << >>]
    ELSE [found |-> TRUE, row |-> data[equipment_labels[label + 1] + 1]]

\* detect_anomalies(equipment_id) on a trained system: flagged holds the
\* positions (from 1) in feature_data that the detector predicts -1.
detect_anomalies_report(data, equipment_id, flagged) ==
    LET equipment_labels == EquipmentLabels(data, equipment_id)
        feature_labels ==
            SelectSeq(equipment_labels, LAMBDA l : data[l + 1].valid)
        anomalous_indices == Ascending(flagged)
        records == [k \in 1..Len(anomalous_indices) |->
                      RecordByPosition(data, equipment_labels,
                                       feature_labels[anomalous_indices[k]])]
    IN  IF Len(equipment_labels) = 0
        THEN [error |-> "Equipment not found", anomalies |-> <<>>,
              total_anomalies |-> 0]
        ELSE IF Len(feature_labels) = 0
        THEN [error |-> "No valid data for anomaly detection",
              anomalies |-> <<>>, total_anomalies |-> 0]
        ELSE IF \E k \in 1..Len(records) : ~records[k].found
        THEN [error |-> "Error detecting anomalies", anomalies |-> <<>>,
              total_anomalies |-> 0]
        ELSE [error |-> "none",
              anomalies |-> [k \in 1..Len(records) |->
                               AnomalyEntry(records[k].row)],
              total_anomalies |-> Len(records)]

\* the rows detect_anomalies scores for a request, as rows of self.data
ScoredRows(data, equipment_id) ==
    SelectSeq(data, LAMBDA r : /\ r.valid
                               /\ (equipment_id = NoneArg
                                     \/ r.equipment_id = equipment_id))

\* The /ml routes.  What the try body of a route comes to: a returned
\* response, an HTTPException it raises, or an exception out of the engine.
Response == [raised |-> FALSE, http |-> FALSE, status_code |-> 200]
HTTPException(status_code) ==
    [raised |-> TRUE, http |-> TRUE, status_code |-> status_code]
EngineException == [raised |-> TRUE, http |-> FALSE, status_code |-> 0]

\* except Exception as e: raise HTTPException(status_code=500, ...).
\* HTTPException is an Exception, so the clause also catches the
\* HTTPException the try body raises itself.
ExceptException(body) == IF body.raised THEN 500 ELSE body.status_code

\* what an engine call comes to: a result, a result with an "error" key, or
\* an exception
EngineOutcomes == {"result", "error result", "raises"}

\* POST /ml/demand-forecast: the status code of the answer
generate_demand_forecast(loaded, forecast) ==
    IF ~loaded THEN 503
    ELSE ExceptException(
             IF forecast = "raises" THEN EngineException
             ELSE IF forecast = "error result" THEN HTTPException(400)
             ELSE Response)

\* GET /ml/analytics/equipment/{equipment_type}/performance and
\* GET /ml/analytics/site/{site_id}/utilization: known says whether the
\* path parameter is a key of stats['by_equipment_type'] or stats['by_site'];
\* the forecast is asked for a known key only, and one with an "error" key
\* is answered as demand_forecast: None
get_performance(loaded, stats, known, forecast) ==
    IF ~loaded THEN 503
    ELSE ExceptException(
             IF stats = "raises" THEN EngineException
             ELSE IF stats = "error result" THEN HTTPException(400)
             ELSE IF ~known THEN HTTPException(404)
             ELSE IF forecast = "raises" THEN EngineException
             ELSE Response)

FN_Init ==
    /\ fn_pc = "call"
    /\ fn_out = << >>
    /\ \/ \E engine \in 0..MaxHours, idle \in 0..MaxHours :
             fn_in = [fn |-> "engineer_features",
                      row |-> [engine |-> engine, idle |-> idle,
                               opdays |-> 30, duration |-> 10]]
       \/ \E n \in 0..MaxSeries : \E demands \in [1..n -> DemandValues] :
             fn_in = [fn |-> "_calculate_demand_trend", demands |-> demands]
       \/ \E predicted_demand \in ConstraintInputs, future_date \in ConstraintDates,
             n \in 0..MaxSiteRows, equipment_type \in {NoneArg, TypeX},
             site_id \in {NoneArg, SiteA, UNASSIGNED} :
             fn_in = [fn |-> "_apply_realistic_constraints",
                      predicted_demand |-> predicted_demand,
                      future_date |-> future_date, n |-> n,
                      equipment_type |-> equipment_type, site_id |-> site_id]
       \/ \E n \in {ML_MinCleanRows, ML_MinCleanRows + 1},
             order \in {"ascending", "descending"} :
             \E r \in 0..(n - 1) :
                fn_in = [fn |-> "train_test_split",
                         dates |-> CleanTable(n, order),
                         permutation |-> Rotation(n, r)]
       \/ \E data \in DataTables,
             equipment_id \in {NoneArg, EquipmentE1, EquipmentE2, EquipmentE3} :
             \E flagged \in SUBSET (1..Len(ScoredRows(data, equipment_id))) :
                fn_in = [fn |-> "detect_anomalies", data |-> data,
                         equipment_id |-> equipment_id, flagged |-> flagged]
       \/ \E loaded \in BOOLEAN, forecast \in EngineOutcomes :
             fn_in = [fn |-> "generate_demand_forecast", loaded |-> loaded,
                      engine |-> forecast, known |-> TRUE, forecast |-> forecast]
       \/ \E route \in {"get_equipment_performance", "get_site_utilization"},
             loaded \in BOOLEAN, stats \in EngineOutcomes, known \in BOOLEAN,
             forecast \in EngineOutcomes :
             fn_in = [fn |-> route, loaded |-> loaded, engine |-> stats,
                      known |-> known, forecast |-> forecast]

FN_EngineerFeatures ==
    /\ fn_pc = "call" /\ fn_in.fn = "engineer_features"
    /\ fn_out' = EngineerRow(fn_in.row, fn_in.row.duration)
    /\ fn_pc' = "returned"
    /\ UNCHANGED fn_in
    /\ UNCHANGED fn_frame

FN_CalculateDemandTrend ==
    /\ fn_pc = "call" /\ fn_in.fn = "_calculate_demand_trend"
    /\ fn_out' = _calculate_demand_trend(fn_in.demands)
    /\ fn_pc' = "returned"
    /\ UNCHANGED fn_in
    /\ UNCHANGED fn_frame

FN_TrainTestSplit ==
    /\ fn_pc = "call" /\ fn_in.fn = "train_test_split"
    /\ fn_out' = train_test_split(fn_in.dates, fn_in.permutation)
    /\ fn_pc' = "returned"
    /\ UNCHANGED fn_in
    /\ UNCHANGED fn_frame

FN_DetectAnomalies ==
    /\ fn_pc = "call" /\ fn_in.fn = "detect_anomalies"
    /\ fn_out' = detect_anomalies_report(fn_in.data, fn_in.equipment_id,
                                         fn_in.flagged)
    /\ fn_pc' = "returned"
    /\ UNCHANGED fn_in
    /\ UNCHANGED fn_frame

FN_GenerateDemandForecast ==
    /\ fn_pc = "call" /\ fn_in.fn = "generate_demand_forecast"
    /\ fn_out' = generate_demand_forecast(fn_in.loaded, fn_in.forecast)
    /\ fn_pc' = "returned"
    /\ UNCHANGED fn_in
    /\ UNCHANGED fn_frame

FN_GetPerformance ==
    /\ fn_pc = "call"
    /\ fn_in.fn \in {"get_equipment_performance", "get_site_utilization"}
    /\ fn_out' = get_performance(fn_in.loaded, fn_in.engine, fn_in.known,
                                 fn_in.forecast)
    /\ fn_pc' = "returned"
    /\ UNCHANGED fn_in
    /\ UNCHANGED fn_frame

FN_ApplyRealisticConstraints ==
    /\ fn_pc = "call" /\ fn_in.fn = "_apply_realistic_constraints"
    /\ fn_out' = _apply_realistic_constraints(fn_in.predicted_demand,
                    fn_in.future_date, fn_in.n, fn_in.equipment_type, fn_in.site_id)
    /\ fn_pc' = "returned"
    /\ UNCHANGED fn_in
    /\ UNCHANGED fn_frame

----------------------------------------------------------------------------
\* SmartMLSystem.detect_anomalies, and POST /ml/models/retrain beside a
\* forecast request.  The router's endpoints are plain "def" functions on one
\* module-level ml_system, so two requests run in two threads on one object.

\* detect_anomalies(equipment_id=None): the rows scored by the detector
detect_anomalies(sys, data) ==
    IF ~sys.models_trained
    THEN [error |-> "Models not trained", scored |-> 0]
    ELSE IF DataLen(data) = 0
    THEN [error |-> "No valid data for anomaly detection", scored |-> 0]
    ELSE IF ~sys.anomaly_detector.fitted
    THEN [error |-> "Error detecting anomalies", scored |-> 0]
    ELSE [error |-> "none", scored |-> DataLen(data)]

MaxRetrains == 2

\* the fits of _train_models in the order of the code
TrainOrder ==
    << "scaler", "demand_forecaster", "site_specific_models", "anomaly_detector" >>

NoGeneration == [name \in { TrainOrder[k] : k \in 1..Len(TrainOrder) } |-> 0]
NoRead == [generation |-> -1, mid_fit |-> FALSE]
NoReads == [scaler |-> NoRead, regressor |-> NoRead]
NoRequest == << NoneArg, NoneArg >>

\* What a fit of _train_models leaves in the artifact.  self.data is read
\* once, by __init__, and every estimator has random_state=42, so a fit over
\* it yields the estimator the first training yielded.
FitResult(before, sys, data, name) ==
    IF name = "scaler" THEN [fitted |-> TRUE]
    ELSE IF name = "demand_forecaster"
    THEN Fitted(before.demand_forecaster.predicts, global_feature_columns)
    ELSE IF name = "site_specific_models"
    THEN _train_site_specific_models(
             sys.site_specific_models, data,
             [site \in TrainableSites(data) |->
                 before.site_specific_models[site].predicts])
    ELSE [fitted |-> TRUE]

RT_Off ==
    /\ rt_pc = "off" /\ rt_step = 0 /\ rt_run = 0 /\ rt_gen = NoGeneration
    /\ rt_fitting = "none" /\ rt_before = NoSystem
    /\ fc_pc = "off" /\ fc_request = NoRequest /\ fc_read = NoReads

RT_Init ==
    /\ rt_pc = "idle" /\ rt_step = 0 /\ rt_run = 0 /\ rt_gen = NoGeneration
    /\ rt_fitting = "none" /\ rt_before = NoSystem
    /\ fc_pc = "idle" /\ fc_request = NoRequest /\ fc_read = NoReads

\* the data.csv files the served system is constructed over
ML_ServedInit ==
    /\ ml_pc = "start"
    /\ \E site_rows \in {0, ML_MinSiteRows}, bulk_rows \in BulkRows,
          dirty \in DirtyRows :
          /\ dirty <= bulk_rows
          /\ ml_data = MLTable(site_rows, bulk_rows, dirty, 3)
    /\ ml_sys = NoSystem
    /\ ml_disk = NoDirectory
    /\ ml_restored = NoSystem
    /\ ml_result = NoForecast

\* retrain_ml_models calls ml_system._train_models(): the two length checks
RT_Begin ==
    /\ ml_pc = "ready"
    /\ rt_pc \in {"idle", "done", "returned"}
    /\ rt_run < MaxRetrains
    /\ rt_run' = rt_run + 1
    /\ rt_before' = ml_sys
    /\ IF \/ DataLen(ml_data) < ML_MinRows
          \/ DataLen(ml_data) - ml_data.dirty < ML_MinCleanRows
       THEN rt_pc' = "returned" /\ rt_step' = 0
       ELSE rt_pc' = "training" /\ rt_step' = 1
    /\ UNCHANGED <<rt_gen, rt_fitting, fc_pc, fc_request, fc_read>>
    /\ UNCHANGED ml_vars
    /\ UNCHANGED rt_frame

\* the next fit starts
RT_EnterFit ==
    /\ rt_pc = "training"
    /\ rt_fitting = "none"
    /\ rt_step <= Len(TrainOrder)
    /\ rt_fitting' = TrainOrder[rt_step]
    /\ UNCHANGED <<rt_pc, rt_step, rt_run, rt_gen, rt_before,
                   fc_pc, fc_request, fc_read>>
    /\ UNCHANGED ml_vars
    /\ UNCHANGED rt_frame

\* the fit returns
RT_FinishFit ==
    /\ rt_pc = "training"
    /\ rt_fitting # "none"
    /\ ml_sys' = [ml_sys EXCEPT
                    ![rt_fitting] = FitResult(rt_before, ml_sys, ml_data, rt_fitting)]
    /\ rt_gen' = [rt_gen EXCEPT ![rt_fitting] = rt_run]
    /\ rt_fitting' = "none"
    /\ rt_step' = rt_step + 1
    /\ UNCHANGED <<rt_pc, rt_run, rt_before, fc_pc, fc_request, fc_read>>
    /\ UNCHANGED <<ml_pc, ml_data, ml_disk, ml_restored, ml_result>>
    /\ UNCHANGED rt_frame

\* self.models_trained = True, after the last fit
RT_Succeed ==
    /\ rt_pc = "training"
    /\ rt_fitting = "none"
    /\ rt_step = Len(TrainOrder) + 1
    /\ ml_sys' = [ml_sys EXCEPT !.models_trained = TRUE]
    /\ rt_pc' = "done"
    /\ rt_step' = 0
    /\ UNCHANGED <<rt_run, rt_gen, rt_fitting, rt_before,
                   fc_pc, fc_request, fc_read>>
    /\ UNCHANGED <<ml_pc, ml_data, ml_disk, ml_restored, ml_result>>
    /\ UNCHANGED rt_frame

\* a fit raises: "except Exception" sets self.models_trained = False and the
\* endpoint answers 500; the artifact stays as the fit left it
RT_Raise ==
    /\ rt_pc = "training"
    /\ rt_fitting # "none"
    /\ ml_sys' = [ml_sys EXCEPT !.models_trained = FALSE]
    /\ rt_pc' = "failed"
    /\ UNCHANGED <<rt_step, rt_run, rt_gen, rt_fitting, rt_before,
                   fc_pc, fc_request, fc_read>>
    /\ UNCHANGED <<ml_pc, ml_data, ml_disk, ml_restored, ml_result>>
    /\ UNCHANGED rt_frame

\* forecast_demand up to the loop: the checks that return before any model
\* is used
FC_Begin ==
    /\ ml_pc = "ready"
    /\ fc_pc = "idle"
    /\ \E equipment_type \in RequestTypes, site_id \in {NoneArg, SiteA} :
          /\ fc_request' = << equipment_type, site_id >>
          /\ fc_pc' =
               IF \/ ~ml_sys.models_trained
                  \/ FilteredRows(ml_data, equipment_type, site_id) = 0
                  \/ equipment_type # NoneArg
                       /\ equipment_type \notin ml_sys.equipment_encoder
                  \/ site_id # NoneArg /\ site_id \notin ml_sys.site_encoder
               THEN "returned" ELSE "predict"
    /\ UNCHANGED <<rt_pc, rt_step, rt_run, rt_gen, rt_fitting, rt_before, fc_read>>
    /\ UNCHANGED ml_vars
    /\ UNCHANGED rt_frame

\* self.scaler.transform([features])
FC_Transform ==
    /\ fc_pc = "predict"
    /\ ~UsesSiteModel(ml_sys, fc_request[1], fc_request[2])
    /\ fc_read' = [fc_read EXCEPT
                     !.scaler = [generation |-> rt_gen["scaler"],
                                 mid_fit    |-> rt_fitting = "scaler"]]
    /\ fc_pc' = "scaled"
    /\ UNCHANGED <<rt_pc, rt_step, rt_run, rt_gen, rt_fitting, rt_before, fc_request>>
    /\ UNCHANGED ml_vars
    /\ UNCHANGED rt_frame

\* self.demand_forecaster.predict(features_scaled)
FC_Predict ==
    /\ fc_pc = "scaled"
    /\ fc_read' = [fc_read EXCEPT
                     !.regressor = [generation |-> rt_gen["demand_forecaster"],
                                    mid_fit    |-> rt_fitting = "demand_forecaster"]]
    /\ fc_pc' = "returned"
    /\ UNCHANGED <<rt_pc, rt_step, rt_run, rt_gen, rt_fitting, rt_before, fc_request>>
    /\ UNCHANGED ml_vars
    /\ UNCHANGED rt_frame

\* self.site_specific_models[site_id].predict([site_features])
FC_PredictSite ==
    /\ fc_pc = "predict"
    /\ UsesSiteModel(ml_sys, fc_request[1], fc_request[2])
    /\ fc_read' = [fc_read EXCEPT
                     !.regressor = [generation |-> rt_gen["site_specific_models"],
                                    mid_fit    |-> FALSE]]
    /\ fc_pc' = "returned"
    /\ UNCHANGED <<rt_pc, rt_step, rt_run, rt_gen, rt_fitting, rt_before, fc_request>>
    /\ UNCHANGED ml_vars
    /\ UNCHANGED rt_frame

----------------------------------------------------------------------------
\* Specifications: one per component, the other components switched off

InitAnomaly == AD_Init /\ TR_Off /\ FE_Off /\ TN_Off /\ ML_Off /\ FN_Off /\ RT_Off
SpecAnomaly == InitAnomaly /\ [][AD_Next]_vars

InitTransform == TR_Init /\ AD_Off /\ FE_Off /\ TN_Off /\ ML_Off /\ FN_Off /\ RT_Off
SpecTransform == InitTransform /\ [][TR_Next]_vars

InitFeatures == FE_Init /\ AD_Off /\ TR_Off /\ TN_Off /\ ML_Off /\ FN_Off /\ RT_Off
SpecFeatures == InitFeatures /\ [][FE_Next]_vars

InitTrain == TN_Init /\ AD_Off /\ TR_Off /\ FE_Off /\ ML_Off /\ FN_Off /\ RT_Off
NextTrain == TN_TrainAllModels
SpecTrain == InitTrain /\ [][NextTrain]_vars

InitFunctions ==
    FN_Init /\ AD_Off /\ TR_Off /\ FE_Off /\ TN_Off /\ ML_Off /\ RT_Off
NextFunctions ==
    \/ FN_EngineerFeatures
    \/ FN_CalculateDemandTrend
    \/ FN_ApplyRealisticConstraints
    \/ FN_TrainTestSplit
    \/ FN_DetectAnomalies
    \/ FN_GenerateDemandForecast
    \/ FN_GetPerformance
SpecFunctions == InitFunctions /\ [][NextFunctions]_vars

InitInference ==
    AD_Init /\ TR_Off /\ FE_Off /\ TN_Off /\ ML_Off /\ FN_Off /\ RT_Off
NextInference ==
    \/ AD_EngineerFeatures
    \/ AD_CalculateThresholds
    \/ AD_TrainAllModels
    \/ AD_DetectStatisticalAnomalies
    \/ AD_DetectMLAnomalies
SpecInference == InitInference /\ [][NextInference]_vars

InitLoad ==
    ML_Init /\ AD_Off /\ TR_Off /\ FE_Off /\ TN_Off /\ FN_Off /\ RT_Off
NextLoad ==
    \/ ML_Construct
    \/ ML_SaveModels
    \/ ML_RemoveArtifact
    \/ ML_TryLoadModels
SpecLoad == InitLoad /\ [][NextLoad]_vars

InitRetrain ==
    ML_ServedInit /\ RT_Init /\ AD_Off /\ TR_Off /\ FE_Off /\ TN_Off /\ FN_Off
NextRetrain ==
    \/ ML_Construct
    \/ RT_Begin
    \/ RT_EnterFit
    \/ RT_FinishFit
    \/ RT_Succeed
    \/ RT_Raise
    \/ FC_Begin
    \/ FC_Transform
    \/ FC_Predict
    \/ FC_PredictSite
SpecRetrain == InitRetrain /\ [][NextRetrain]_vars

\* the forecaster on tables of two segments
InitSegments ==
    TN_SegmentsInit /\ AD_Off /\ TR_Off /\ FE_Off /\ ML_Off /\ FN_Off /\ RT_Off
NextSegments ==
    \/ TN_TrainAllModels
    \/ TN_PredictSegment
SpecSegments == InitSegments /\ [][NextSegments]_vars

\* the forecaster and the SmartMLSystem side by side: one or the other is in use
InitForecast ==
    \/ TN_PredictInit /\ AD_Off /\ TR_Off /\ FE_Off /\ ML_Off /\ FN_Off /\ RT_Off
    \/ ML_Init /\ AD_Off /\ TR_Off /\ FE_Off /\ TN_Off /\ FN_Off /\ RT_Off
NextForecast ==
    \/ TN_TrainAllModels
    \/ TN_PredictDemand
    \/ ML_Construct
    \/ ML_ForecastDemand
    \/ ML_SaveModels
    \/ ML_ConstructAfterSave
SpecForecast == InitForecast /\ [][NextForecast]_vars

\* the two persisted components side by side
InitStore ==
    \/ AD_Init /\ TR_Off /\ FE_Off /\ TN_Off /\ ML_Off /\ FN_Off /\ RT_Off
    \/ ML_Init /\ AD_Off /\ TR_Off /\ FE_Off /\ TN_Off /\ FN_Off /\ RT_Off
NextStore ==
    \/ AD_EngineerFeatures
    \/ AD_CalculateThresholds
    \/ AD_TrainAllModels
    \/ AD_RunCompleteAnalysis
    \/ AD_SaveModels
    \/ AD_LoadModels
    \/ AD_RunAfterLoad
    \/ ML_Construct
    \/ ML_ForecastDemand
    \/ ML_SaveModels
    \/ ML_ConstructAfterSave
SpecStore == InitStore /\ [][NextStore]_vars

----------------------------------------------------------------------------
\* Claims about the AnomalyDetector

AD_Analysed == ad_analysis.error = "none"

\* The number of the four per-method flags of a row that are true
\* (statistical is_anomaly, isolation_forest, local_outlier_factor, dbscan).
FlagsTrue(row) == Cardinality({ col \in DOMAIN row.flags : row.flags[col] })

\* C1: in run_complete_analysis a row is a consensus anomaly iff at least 2 of
\* its 4 per-method flags are true; in particular a row flagged by the
\* statistical method and by exactly one ML detector is a consensus anomaly.
ConsensusCountsFourFlags ==
    AD_Analysed =>
        \A i \in 1..Len(ad_analysis.rows) :
            ad_analysis.rows[i].is_consensus_anomaly <=>
                FlagsTrue(ad_analysis.rows[i]) >= 2

IsIdleRow(row) == row.engine = 0 /\ row.idle = 20

\* C10 as stated: a row with engine hours 0 and idle hours 20 is flagged by
\* the statistical method in every training snapshot it belongs to.
IdleRowAlwaysFlagged ==
    AD_Analysed =>
        \A i \in 1..Len(ad_df) :
            IsIdleRow(ad_df[i]) => ad_analysis.rows[i].flags[StatFlagCol]

\* C10 as amended: the row is flagged by the statistical method when the
\* snapshot has at least 6 rows and no other row has zero engine hours,
\* whatever the three ML detectors vote; it is not flagged when the snapshot
\* holds only rows equal to it (std is 0, or NaN for a single row).
IdleRowFlaggedAgainstBaseline ==
    AD_Analysed =>
        \A i \in 1..Len(ad_df) :
            IsIdleRow(ad_df[i]) =>
                /\ ( /\ Len(ad_df) >= 6
                     /\ \A j \in 1..Len(ad_df) : j # i => ad_df[j].engine # 0 )
                   => ad_analysis.rows[i].flags[StatFlagCol]
                /\ (\A j \in 1..Len(ad_df) : ad_df[j] = ad_df[i])
                   => ~ad_analysis.rows[i].flags[StatFlagCol]

\* C10 witness: six rows, the idle row is the only one with zero engine hours,
\* no ML detector votes for it, and the statistical method flags it.
IdleRowFlaggedWitness ==
    /\ AD_Analysed
    /\ Len(ad_df) >= 6
    /\ \E i \in 1..Len(ad_df) :
          /\ IsIdleRow(ad_df[i])
          /\ \A j \in 1..Len(ad_df) : j # i => ad_df[j].engine # 0
          /\ ad_analysis.rows[i].flags[StatFlagCol]
          /\ FlagsTrue(ad_analysis.rows[i]) = 1

----------------------------------------------------------------------------
\* Claims about load_and_transform_data

\* the (site, type) segments of the snapshot: the pairs some record carries
Segments(df) == { <<df[k].site, df[k].type>> : k \in 1..Len(df) }

\* the records of a segment that cover a date (a missing site is a site)
Covering(df, date, seg) ==
    { k \in 1..Len(df) : /\ df[k].site = seg[1] /\ df[k].type = seg[2]
                         /\ df[k].check_out <= date /\ date <= df[k].check_in }

DateRange(df) ==
    MinSeq([k \in 1..Len(df) |-> df[k].check_out]) ..
    MaxSeq([k \in 1..Len(df) |-> df[k].check_in])

\* C4: load_and_transform_data outputs exactly one row for every date of
\* [min check-out, max check-in] and every (site, type) segment of the
\* snapshot (site may be null), whose Active_Rentals is the number of records
\* of that segment covering the date.
EveryRecordCountedInItsSegment ==
    tr_pc = "transformed" =>
        \A date \in DateRange(rental_df), seg \in Segments(rental_df) :
            LET rows == { r \in 1..Len(ts_df) :
                            /\ ts_df[r].Date = date
                            /\ ts_df[r].Site_ID = seg[1]
                            /\ ts_df[r].Type = seg[2] }
            IN  /\ Cardinality(rows) = 1
                /\ \A r \in rows :
                      ts_df[r].Active_Rentals =
                          Cardinality(Covering(rental_df, date, seg))

----------------------------------------------------------------------------
\* Claims about engineer_features

\* the (site, type) partitions of a table, a missing site being a site
Partitions(df) == { <<df[i].Site_ID, df[i].Type>> : i \in 1..Len(df) }

\* the rows of a partition in date order
PartitionByDate(df, part) ==
    SortByDate(df, SelectSeq([i \in 1..Len(df) |-> i],
                             LAMBDA i : df[i].Site_ID = part[1] /\ df[i].Type = part[2]))

\* C5: for every (site, type) partition taken in date order, Lag_7 of the
\* i-th row (counted from 0) is Active_Rentals of the (i-7)-th row for i >= 7
\* and 0 for i < 7, whatever the row order of the table passed in.
Lag7IsSevenRowsBack ==
    fe_pc = "engineered" =>
        \A part \in Partitions(fe_df) :
            LET rows == PartitionByDate(fe_df, part)
            IN  \A j \in 1..Len(rows) :
                   fe_features[rows[j]].lags.Lag_7 =
                       IF j > 7 THEN fe_df[rows[j - 7]].Active_Rentals ELSE 0

\* C6: the lag and rolling features of a row depend only on the
\* Active_Rentals of rows of its partition with a strictly earlier date:
\* giving any other value to the Active_Rentals of a row changes no feature
\* of that row nor of a row of an earlier date.
NoLookahead ==
    fe_pc = "engineered" =>
        \A i \in 1..Len(fe_df), v \in ActiveValues :
            LET changed == DF_engineer_features(
                               [fe_df EXCEPT ![i].Active_Rentals = v])
            IN  \A j \in 1..Len(fe_df) :
                   ( /\ fe_df[j].Site_ID = fe_df[i].Site_ID
                     /\ fe_df[j].Type = fe_df[i].Type
                     /\ fe_df[j].Date <= fe_df[i].Date )
                   => changed[j].lags = fe_features[j].lags

----------------------------------------------------------------------------
\* Claims about prepare_training_data and train_all_models

RawRowCount(df, seg) ==
    Cardinality({ i \in 1..Len(df) : df[i].Site_ID = seg[1] /\ df[i].Type = seg[2] })
CleanRowCount(df, seg) ==
    Cardinality({ i \in 1..Len(df) : /\ df[i].Site_ID = seg[1]
                                     /\ df[i].Type = seg[2] /\ df[i].clean })
SegmentsOf(df) == { << df[i].Site_ID, df[i].Type >> : i \in 1..Len(df) }
Skipped(seg) ==
    seg \in tn_report /\ model_key(seg[1], seg[2]) \notin DOMAIN fc_models
Trained(seg) == model_key(seg[1], seg[2]) \in DOMAIN fc_models

DatesOf(rows) == { rows[i].Date : i \in 1..Len(rows) }

\* C7: for every segment with a split, every training date is strictly
\* earlier than every test date, the training part is the first
\* floor(0.8 * n) rows in date order and both parts are non-empty, whatever
\* the row order of the feature table.
ChronologicalSplit ==
    tn_pc = "trained" =>
        \A seg \in DOMAIN tn_splits :
            tn_splits[seg].ok =>
                LET train == DatesOf(tn_splits[seg].train)
                    test  == DatesOf(tn_splits[seg].test)
                    n     == Cardinality(train \cup test)
                IN  /\ \A a \in train, b \in test : a < b
                    /\ Cardinality(train) = (8 * n) \div 10
                    /\ train # {} /\ test # {}

----------------------------------------------------------------------------
\* Claims about forecasts and persistence

\* C3: the system constructed after save_models of a trained system returns
\* the same forecast_demand result as the system that saved, for every
\* equipment type, site and horizon, and run_complete_analysis of a detector
\* after save_models and load_models returns what it returned before.
SaveLoadRoundTrip ==
    /\ (ml_pc = "restored" /\ ml_sys.models_trained) =>
          \A equipment_type \in RequestTypes, site_id \in RequestSites,
             days_ahead \in 0..MaxHorizon :
                forecast_demand(ml_restored, ml_data, equipment_type, site_id, days_ahead)
                  = forecast_demand(ml_sys, ml_data, equipment_type, site_id, days_ahead)
    /\ ad_pc = "reanalysed" => ad_reanalysis = ad_analysis

\* C8: every entry of a forecast_demand result has predicted_demand >= 0 and
\* a confidence of 0.3 to 0.95, and every value predict_demand returns is >= 0.
ForecastsWithinBounds ==
    /\ ml_result.error = "none" =>
          \A i \in 1..Len(ml_result.forecasts) :
              /\ ml_result.forecasts[i].predicted_demand >= 0
              /\ ml_result.forecasts[i].confidence >= 30
              /\ ml_result.forecasts[i].confidence <= 95
    /\ tn_result.error = "none" =>
          \A i \in 1..Len(tn_result.predictions) : tn_result.predictions[i] >= 0

\* C8 witness: a forecast from a global model that predicts a negative value,
\* on so few rows that the confidence is clamped from below
NegativePredictionClampedWitness ==
    /\ ml_pc = "ready"
    /\ ml_result.error = "none"
    /\ ~UsesSiteModel(ml_sys, ml_result.request[1], ml_result.request[2])
    /\ \E i \in 1..Len(ml_result.forecasts) :
          /\ Predict(ml_sys.demand_forecaster.predicts,
                     ml_result.forecasts[i].date) < 0
          /\ ml_result.forecasts[i].predicted_demand = 0
          /\ ml_result.forecasts[i].confidence = 30

PairRows(data, site_id, equipment_type) ==
    IF << site_id, equipment_type >> \in DOMAIN data.rows
    THEN data.rows[<< site_id, equipment_type >>] ELSE 0

\* C9: predict_demand for a pair without rows and without a model under its
\* key raises ValueError; forecast_demand for a pair without rows, or on a
\* system whose models_trained is false, returns an error result; neither
\* returns a forecast series.
NoRowsNoModelIsAnError ==
    /\ ( /\ tn_pc = "predicted"
         /\ SegmentRows(tn_df, tn_result.request[1], tn_result.request[2]) = << >>
         /\ model_key(tn_result.request[1], tn_result.request[2])
               \notin DOMAIN fc_models )
       => tn_result.error = "ValueError" /\ tn_result.predictions = << >>
    /\ ( /\ ml_pc = "ready"
         /\ ml_result.error # "not called"
         /\ \/ ~ml_sys.models_trained
            \/ /\ ml_result.request[1] # NoneArg
               /\ ml_result.request[2] # NoneArg
               /\ PairRows(ml_data, ml_result.request[2], ml_result.request[1]) = 0 )
       => ml_result.error # "none" /\ ml_result.forecasts = << >>

\* C9 witness: a trained system asked for site B, which has no rows
PairWithoutRowsWitness ==
    /\ ml_pc = "ready"
    /\ ml_sys.models_trained
    /\ ml_result.request[1] = TypeX
    /\ ml_result.request[2] = SiteB
    /\ ml_result.error = "No data found for the specified parameters"

----------------------------------------------------------------------------
\* Claims about single function calls

Returned(fn) == fn_pc = "returned" /\ fn_in.fn = fn

\* C15: the result of _apply_realistic_constraints equals
\* factor(date) * min(cap, max(0, raw)): clamp at 0, cap at the maximum
\* demand, and only then the weekend (0.6) and winter (0.8) factors.
ClampCapThenDampen ==
    Returned("_apply_realistic_constraints") =>
        fn_out * 100 =
            WeekendFactor(fn_in.future_date) * WinterFactor(fn_in.future_date)
              * Min2(max_demand(fn_in.n, fn_in.equipment_type, fn_in.site_id),
                     Max2(0, fn_in.predicted_demand * 100))

----------------------------------------------------------------------------
\* Claims about loading and retraining a SmartMLSystem

\* C11: when _try_load_models fails, none of the five artifacts of the object
\* has been replaced by a loaded one; when it succeeds, every artifact that
\* was saved is in use, the site-specific models included.
LoadIsAllOrNothing ==
    /\ ml_pc = "load failed" =>
          \A k \in 1..Len(LoadOrder) :
              ml_restored[LoadOrder[k]] = NewSystem(ml_data)[LoadOrder[k]]
    /\ ml_pc = "loaded" =>
          /\ \A k \in 1..Len(LoadOrder) :
                ml_restored[LoadOrder[k]] = ml_disk.files[LoadOrder[k]]
          /\ ml_restored.site_specific_models = ml_disk.site_model_files

----------------------------------------------------------------------------
\* Claims about the model a forecast comes from

\* C16: a forecast_demand request that names a site gets every day's
\* prediction from the site-specific model whenever one exists for the site,
\* with or without an equipment type, and from the global model exactly when
\* none exists.
SiteModelWheneverItExists ==
    (ml_pc = "ready" /\ ml_result.error = "none"
                     /\ ml_result.request[2] # NoneArg) =>
        LET equipment_type == ml_result.request[1]
            site_id == ml_result.request[2]
            model == IF site_id \in DOMAIN ml_sys.site_specific_models
                     THEN ml_sys.site_specific_models[site_id]
                     ELSE ml_sys.demand_forecaster
        IN  \A i \in 1..Len(ml_result.forecasts) :
                ml_result.forecasts[i].predicted_demand =
                    PredictedBy(model, ml_data,
                                FilteredRows(ml_data, equipment_type, site_id),
                                equipment_type, site_id, i)

\* C17: the feature vector forecast_demand gives to a model has exactly the
\* columns the model was fitted on, in the same order.
ForecastFeaturesMatchFit ==
    (ml_pc = "ready" /\ ml_result.error = "none") =>
        FeaturesGiven(ml_sys, ml_result.request[1], ml_result.request[2]) =
            ModelUsed(ml_sys, ml_result.request[1], ml_result.request[2]).columns

----------------------------------------------------------------------------
\* Claims about retraining a served system

\* C12: a forecast_demand call that runs while POST /ml/models/retrain
\* retrains the shared system uses a scaler and a regressor of the same
\* training generation, neither of them in the middle of a fit.
ForecastUsesOneGeneration ==
    (fc_pc = "returned" /\ fc_read.scaler # NoRead) =>
        /\ ~fc_read.scaler.mid_fit
        /\ ~fc_read.regressor.mid_fit
        /\ fc_read.scaler.generation = fc_read.regressor.generation

\* C13: when a retrain of a trained system fails partway, models_trained is
\* still true and forecast_demand and detect_anomalies return what they
\* returned before the retrain.
FailedRetrainKeepsModels ==
    (rt_pc = "failed" /\ rt_before.models_trained) =>
        /\ ml_sys.models_trained
        /\ detect_anomalies(ml_sys, ml_data) = detect_anomalies(rt_before, ml_data)
        /\ \A equipment_type \in RequestTypes, site_id \in RequestSites :
              forecast_demand(ml_sys, ml_data, equipment_type, site_id, 1) =
                  forecast_demand(rt_before, ml_data, equipment_type, site_id, 1)

----------------------------------------------------------------------------
\* Claims about inference

\* C14: an inference call of the detector (detect_statistical_anomalies,
\* detect_ml_anomalies with each of the three models) leaves every trained
\* artifact as it was: the models, the thresholds and the training table.
InferenceIsReadOnly ==
    [][(ad_pc = "trained" /\ ad_pc' = "detected") =>
          /\ ad_models' = ad_models
          /\ ad_thresholds' = ad_thresholds
          /\ ad_features' = ad_features]_vars

----------------------------------------------------------------------------
\* Claims about the forecast as a function of its inputs

\* C21: two predict_demand calls on the same trained models with the same
\* (site, equipment type, days_ahead) return the same predictions, whatever
\* the time at which each call is made.
ForecastIndependentOfClock ==
    [][(tn_pc = "predicted" /\ tn_pc' = "predicted"
            /\ fc_models' = fc_models
            /\ tn_result'.request = tn_result.request) =>
          tn_result'.predictions = tn_result.predictions]_vars

\* C22: the global model of _train_models is trained on a chronological
\* 80/20 split: every training row's date is no later than every holdout
\* row's date.
GlobalSplitIsChronological ==
    Returned("train_test_split") =>
        \A i \in 1..Len(fn_out.train), j \in 1..Len(fn_out.test) :
            fn_out.train[i] <= fn_out.test[j]

\* the row of a segment with the latest date
LatestRow(rows) ==
    CHOOSE r \in { rows[i] : i \in 1..Len(rows) } :
        \A i \in 1..Len(rows) : rows[i].Date <= r.Date

ConfidenceNeverIncreases ==
    (ml_pc = "ready" /\ ml_result.error = "none") =>
        \A i \in 1..(Len(ml_result.forecasts) - 1) :
            ml_result.forecasts[i + 1].confidence <= ml_result.forecasts[i].confidence

ConfidenceDecaysWitness ==
    /\ ml_pc = "ready" /\ ml_result.error = "none"
    /\ Len(ml_result.forecasts) >= 2
    /\ ml_result.forecasts[2].confidence < ml_result.forecasts[1].confidence

ModelsExactlyForSufficientSegments ==
    (tn_pc \in {"trained", "predicted"}) =>
        \A seg \in SegmentsOf(tn_df) :
            LET site_data == SegmentRows(tn_df, seg[1], seg[2])
                cleaned   == SelectSeq(site_data, LAMBDA r : r.clean)
            IN  (model_key(seg[1], seg[2]) \in DOMAIN fc_models)
                    <=> (Len(site_data) >= MinRawRows
                            /\ Len(cleaned) >= MinCleanRows)

\* C27: two different segments of the table never have the same model key,
\* and predict_demand for a segment works from the entry of that segment:
\* the lag inputs are those of the segment's own last row.
SegmentsHaveOwnModels ==
    /\ \A s1, s2 \in SegmentsOf(tn_df) :
           s1 # s2 => model_key(s1[1], s1[2]) # model_key(s2[1], s2[2])
    /\ (tn_pc = "predicted" /\ tn_result.error = "none") =>
           LET rows == SegmentRows(tn_df, tn_result.request[1],
                                   tn_result.request[2])
           IN  /\ rows # <<>>
               /\ \A i \in 1..Len(tn_features) :
                     tn_features[i].lags = LagFeatures(rows[Len(rows)])

\* C28: for an equipment_id that has rows in the data, detect_anomalies
\* returns a report and no error; the report has one entry per row predicted
\* -1, each with the requested equipment_id and the feature values of the
\* row that was scored.
AnomalyReportDescribesFlaggedRows ==
    (/\ Returned("detect_anomalies")
     /\ \E i \in 1..Len(fn_in.data) :
           fn_in.data[i].equipment_id = fn_in.equipment_id) =>
        LET scored  == ScoredRows(fn_in.data, fn_in.equipment_id)
            flagged == Ascending(fn_in.flagged)
        IN  /\ fn_out.error = "none"
            /\ fn_out.total_anomalies = Len(flagged)
            /\ Len(fn_out.anomalies) = Len(flagged)
            /\ \A k \in 1..Len(flagged) :
                  /\ fn_out.anomalies[k].equipment_id = fn_in.equipment_id
                  /\ fn_out.anomalies[k].engine_hours
                        = scored[flagged[k]].engine_hours

\* C29: a forecast_demand(days_ahead = n) that succeeds has exactly n
\* entries, for the n consecutive days that start the day after the latest
\* check-out date of the filtered rows, in increasing order, and its
\* total_predicted_demand is the sum of the entries' predicted_demand; for
\* n <= 0 the result is an error.
ForecastCoversNextDays ==
    (ml_pc = "ready" /\ ml_result.error # "not called") =>
        LET equipment_type == ml_result.request[1]
            site_id        == ml_result.request[2]
            n              == ml_result.request[3]
            matching == { seg \in DOMAIN ml_data.rows :
                            /\ ml_data.rows[seg] > 0
                            /\ equipment_type # NoneArg => seg[2] = equipment_type
                            /\ (site_id # NoneArg /\ site_id # UNASSIGNED)
                                  => seg[1] = site_id }
        IN  /\ n <= 0 => ml_result.error # "none"
            /\ ml_result.error = "none" =>
                  /\ Len(ml_result.forecasts) = n
                  /\ \A i \in 1..n :
                        /\ \A seg \in matching :
                              ml_result.forecasts[i].date
                                 >= SegmentLast(ml_data, seg) + i
                        /\ \E seg \in matching :
                              ml_result.forecasts[i].date
                                 = SegmentLast(ml_data, seg) + i
                  /\ ml_result.total_predicted_demand
                        = SumSeq([i \in 1..n |->
                                    ml_result.forecasts[i].predicted_demand])

\* C29 witness: a forecast over three days for site A alone, whose rows end
\* before the rest of the table, with a positive total.
SiteForecastThreeDaysWitness ==
    /\ ml_pc = "ready" /\ ml_result.error = "none"
    /\ ml_result.request[2] = SiteA
    /\ ml_data.rows[<< UNASSIGNED, TypeX >>] > 0
    /\ Len(ml_result.forecasts) = 3
    /\ ml_result.forecasts[1].date = ml_data.last - 1
    /\ ml_result.total_predicted_demand > 0

\* C30: a /ml route of a loaded system answers an engine result that has an
\* "error" key with HTTP 400 and an unknown equipment type or site with
\* HTTP 404, and answers HTTP 500 only when an engine call raises.
RouteStatusFollowsEngine ==
    (/\ fn_pc = "returned"
     /\ fn_in.fn \in {"generate_demand_forecast", "get_equipment_performance",
                       "get_site_utilization"}
     /\ fn_in.loaded) =>
        /\ fn_in.engine = "error result" => fn_out = 400
        /\ (fn_in.engine = "result" /\ ~fn_in.known) => fn_out = 404
        /\ fn_out = 500 =>
              (fn_in.engine = "raises" \/ fn_in.forecast = "raises")


====
